---- MODULE Spec2Model ----
(***************************************************************************)
(* Recurrence engine of selune: period keys, satisfaction checks, instance *)
(* generation and virtual events, over the Event / RecurrencePattern       *)
(* store.                                                                  *)
(*                                                                         *)
(* Dates are local-time JavaScript Dates: a record [valid, day, ms] with   *)
(* day = days since 1970-01-01 and ms = milliseconds since local midnight. *)
(* Strings that the code formats and parses (period keys) are sequences of *)
(* one-character strings.                                                  *)
(***************************************************************************)
EXTENDS Integers, Sequences, FiniteSets, TLC

(***************************************************************************)
(* JavaScript Date and date-fns calendar arithmetic                        *)
(***************************************************************************)
MsPerDay == 86400000

EndOfDayMs == MsPerDay - 1

InvalidDate == [valid |-> FALSE, day |-> 0, ms |-> 0]

MkDate(d, t) == [valid |-> TRUE, day |-> d, ms |-> t]

\* a <= b on valid Dates (comparison of getTime())
DateLE(a, b) == a.day < b.day \/ (a.day = b.day /\ a.ms <= b.ms)

DateLT(a, b) == a.day < b.day \/ (a.day = b.day /\ a.ms < b.ms)

IsLeap(y) == (y % 4 = 0 /\ y % 100 # 0) \/ y % 400 = 0

LeapsBefore(y) == ((y - 1) \div 4) - ((y - 1) \div 100) + ((y - 1) \div 400)

YearStartDay(y) == 365 * (y - 1970) + LeapsBefore(y) - LeapsBefore(1970)

\* getDaysInMonth, month index 0..11
getDaysInMonth(y, m0) ==
    IF m0 = 1 THEN (IF IsLeap(y) THEN 29 ELSE 28)
    ELSE IF m0 \in {3, 5, 8, 10} THEN 30 ELSE 31

RECURSIVE DaysBeforeMonth(_, _)
DaysBeforeMonth(y, m0) ==
    IF m0 = 0 THEN 0 ELSE DaysBeforeMonth(y, m0 - 1) + getDaysInMonth(y, m0 - 1)

\* MakeDay(year, month, date) of ECMAScript: the day number, with the
\* overflow of monthIndex and dayOfMonth normalised
MakeDay(year, monthIndex, dayOfMonth) ==
    YearStartDay(year + (monthIndex \div 12))
        + DaysBeforeMonth(year + (monthIndex \div 12), monthIndex % 12)
        + dayOfMonth - 1

\* new Date(year, monthIndex, day): years 0..99 are read as 1900..1999
NewDateDay(year, monthIndex, dayOfMonth) ==
    MakeDay(IF year >= 0 /\ year <= 99 THEN 1900 + year ELSE year,
            monthIndex, dayOfMonth)

YearsAround(d) ==
    IF d >= 0 THEN ((d \div 366) + 1969) .. ((d \div 365) + 1971)
    ELSE ((d \div 365) + 1969) .. ((d \div 366) + 1971)

getFullYear(d) ==
    CHOOSE y \in YearsAround(d) : YearStartDay(y) <= d /\ d < YearStartDay(y + 1)

MonthOfYear(y, d) ==
    CHOOSE m0 \in 0..11 :
        /\ MakeDay(y, m0, 1) <= d
        /\ d < MakeDay(y, m0, 1) + getDaysInMonth(y, m0)

\* date-fns isLeapYear(date), for the Date or timestamp on day d
isLeapYear(d) == IsLeap(getFullYear(d))

\* getMonth: 0..11
getMonth(d) == MonthOfYear(getFullYear(d), d)

\* getDate: day of the month, 1..31
getDate(d) == d - MakeDay(getFullYear(d), getMonth(d), 1) + 1

\* getDay: 0 = Sunday .. 6 = Saturday (1970-01-01 was a Thursday)
getDay(d) == (d + 4) % 7

\* date-fns startOfWeek(date, {weekStartsOn: 1}) = startOfISOWeek, as a day
startOfWeekDay(d) ==
    LET day  == getDay(d)
        diff == (IF day < 1 THEN 7 ELSE 0) + day - 1
    IN  d - diff

\* date-fns endOfWeek(date, {weekStartsOn: 1}), as a day
endOfWeekDay(d) ==
    LET day  == getDay(d)
        diff == (IF day < 1 THEN -7 ELSE 0) + 6 - (day - 1)
    IN  d + diff

ISOWeekYearFrom(d, year) ==
    IF d >= startOfWeekDay(MakeDay(year + 1, 0, 4)) THEN year + 1
    ELSE IF d >= startOfWeekDay(MakeDay(year, 0, 4)) THEN year
    ELSE year - 1

\* a week-numbering year taken from the calendar year
getCalendarYearAsISOWeekYear(d) == getFullYear(d)

\* date-fns getISOWeekYear: the year whose ISO week-numbering year holds d,
\* found from the Mondays of the weeks of 4 January of this and next year
getISOWeekYear(d) == ISOWeekYearFrom(d, getFullYear(d))

\* date-fns startOfISOWeekYear
startOfISOWeekYearDay(d) == startOfWeekDay(MakeDay(getISOWeekYear(d), 0, 4))

\* date-fns getISOWeek: round(diff / one week) + 1
getISOWeek(d) == ((startOfWeekDay(d) - startOfISOWeekYearDay(d)) \div 7) + 1

startOfMonthDay(d) == MakeDay(getFullYear(d), getMonth(d), 1)

endOfMonthDay(d) == MakeDay(getFullYear(d), getMonth(d) + 1, 0)

startOfYearDay(d) == MakeDay(getFullYear(d), 0, 1)

endOfYearDay(d) == MakeDay(getFullYear(d) + 1, 0, 0)

(***************************************************************************)
(* JavaScript strings: toString, padStart, split, parseInt                 *)
(***************************************************************************)
DigitChars == <<"0", "1", "2", "3", "4", "5", "6", "7", "8", "9">>

DigitValue(c) == (CHOOSE i \in 1..10 : DigitChars[i] = c) - 1

IsDigit(c) == \E i \in 1..10 : DigitChars[i] = c

RECURSIVE NatToString(_)
NatToString(n) ==
    IF n < 10 THEN <<DigitChars[n + 1]>>
    ELSE NatToString(n \div 10) \o <<DigitChars[(n % 10) + 1]>>

\* Number.prototype.toString for integers
toString(n) == IF n < 0 THEN <<"-">> \o NatToString(-n) ELSE NatToString(n)

RECURSIVE padStart(_, _, _)
padStart(s, targetLength, ch) ==
    IF Len(s) >= targetLength THEN s ELSE padStart(<<ch>> \o s, targetLength, ch)

StartsWithAt(s, sep, i) ==
    /\ i + Len(sep) - 1 <= Len(s)
    /\ \A k \in 1..Len(sep) : s[i + k - 1] = sep[k]

\* String.prototype.split(sep) for a non-empty separator: the pieces between
\* the occurrences of sep, scanned left to right from position i
RECURSIVE SplitFrom(_, _, _, _)
SplitFrom(s, sep, i, piece) ==
    IF i > Len(s) THEN <<piece>>
    ELSE IF StartsWithAt(s, sep, i)
         THEN <<piece>> \o SplitFrom(s, sep, i + Len(sep), <<>>)
         ELSE SplitFrom(s, sep, i + 1, Append(piece, s[i]))

split(s, sep) == SplitFrom(s, sep, 1, <<>>)

\* destructuring [a, b] = parts: element i, or undefined (<<>>) when missing;
\* a present element is wrapped as <<element>>
Element(parts, i) == IF i <= Len(parts) THEN <<parts[i]>> ELSE <<>>

RECURSIVE DigitsPrefixValue(_, _, _)
DigitsPrefixValue(s, i, acc) ==
    IF i <= Len(s) /\ IsDigit(s[i])
    THEN DigitsPrefixValue(s, i + 1, acc * 10 + DigitValue(s[i]))
    ELSE acc

\* parseInt(x): <<n>> for a number, <<>> for NaN. x is <<string>> or <<>>
\* (undefined). An optional sign, then the longest prefix of digits.
parseInt(x) ==
    IF x = <<>> THEN <<>>
    ELSE LET s     == x[1]
             neg   == Len(s) >= 1 /\ s[1] = "-"
             first == IF Len(s) >= 1 /\ s[1] \in {"-", "+"} THEN 2 ELSE 1
         IN  IF first > Len(s) \/ ~IsDigit(s[first]) THEN <<>>
             ELSE LET v == DigitsPrefixValue(s, first, 0)
                  IN  <<IF neg THEN -v ELSE v>>

(***************************************************************************)
(* periodKeyService: getPeriodKey, getPeriodEndDate                        *)
(***************************************************************************)
Frequencies ==
    {"weekly", "monthly", "yearly", "every_n_days", "n_per_period",
     "nth_weekday_of_month"}

PeriodFrequencies == Frequencies \ {"every_n_days"}

\* a key function whose default case is the weekly key
getPeriodKeyDefaultWeekly(d, frequency) ==
    [ok  |-> TRUE,
     key |-> IF frequency \in {"monthly", "nth_weekday_of_month"}
             THEN toString(getFullYear(d)) \o <<"-">>
                      \o padStart(toString(getMonth(d) + 1), 2, "0")
             ELSE IF frequency = "yearly" THEN toString(getFullYear(d))
             ELSE toString(getISOWeekYear(d)) \o <<"-", "W">>
                      \o padStart(toString(getISOWeek(d)), 2, "0")]

\* getPeriodKey(date, frequency): [ok |-> TRUE, key |-> string], or
\* [ok |-> FALSE, key |-> <<>>] when it throws
getPeriodKey(d, frequency) ==
    CASE frequency = "weekly" ->
           [ok |-> TRUE,
            key |-> toString(getISOWeekYear(d)) \o <<"-", "W">>
                      \o padStart(toString(getISOWeek(d)), 2, "0")]
      [] frequency \in {"monthly", "nth_weekday_of_month"} ->
           [ok |-> TRUE,
            key |-> toString(getFullYear(d)) \o <<"-">>
                      \o padStart(toString(getMonth(d) + 1), 2, "0")]
      [] frequency = "yearly" ->
           [ok |-> TRUE, key |-> toString(getFullYear(d))]
      [] frequency = "n_per_period" ->
           [ok |-> TRUE,
            key |-> toString(getISOWeekYear(d)) \o <<"-", "W">>
                      \o padStart(toString(getISOWeek(d)), 2, "0")]
      [] OTHER -> [ok |-> FALSE, key |-> <<>>]

\* lines 97-111: the Sunday 23:59:59.999 of ISO week `week` of `year`;
\* year and week are parseInt results
WeekEndDate(year, week) ==
    IF year = <<>> \/ week = <<>> THEN InvalidDate
    ELSE LET jan4        == NewDateDay(year[1], 0, 4)
             jan4Day     == getDay(jan4)
             firstMonday == jan4 - (IF jan4Day = 0 THEN 7 ELSE jan4Day) + 1
             weekStart   == firstMonday + (week[1] - 1) * 7
             weekEnd     == weekStart + 6
         IN  MkDate(weekEnd, EndOfDayMs)

\* lines 118-122: new Date(year, month, 0) at 23:59:59.999
MonthEndDate(year, month) ==
    IF year = <<>> \/ month = <<>> THEN InvalidDate
    ELSE MkDate(NewDateDay(year[1], month[1], 0), EndOfDayMs)

\* lines 127-131: new Date(year, 11, 31) at 23:59:59.999
YearEndDate(year) ==
    IF year = <<>> THEN InvalidDate
    ELSE MkDate(NewDateDay(year[1], 11, 31), EndOfDayMs)

WeekEndOfParts(parts) ==
    WeekEndDate(parseInt(Element(parts, 1)), parseInt(Element(parts, 2)))

MonthEndOfParts(parts) ==
    MonthEndDate(parseInt(Element(parts, 1)), parseInt(Element(parts, 2)))

\* getPeriodEndDate(periodKey, frequency): [ok |-> TRUE, date |-> Date]
\* (the Date is InvalidDate when a parsed number is NaN), or ok = FALSE when
\* it throws
getPeriodEndDate(periodKey, frequency) ==
    IF frequency \in {"weekly", "n_per_period"}
    THEN [ok |-> TRUE, date |-> WeekEndOfParts(split(periodKey, <<"-", "W">>))]
    ELSE IF frequency \in {"monthly", "nth_weekday_of_month"}
    THEN [ok |-> TRUE, date |-> MonthEndOfParts(split(periodKey, <<"-">>))]
    ELSE IF frequency = "yearly"
    THEN [ok |-> TRUE, date |-> YearEndDate(parseInt(<<periodKey>>))]
    ELSE [ok |-> FALSE, date |-> InvalidDate]

(***************************************************************************)
(* The store: RecurrencePattern and Event tables                           *)
(***************************************************************************)
VARIABLES
    patterns,     \* RecurrencePattern table: sequence of rows, id = index
    events,       \* Event table: set of rows
    nextEventId,  \* the next fresh Event id
    last,         \* the last completed request and its response
    run,          \* consecutive generate calls on one (pattern, periodKey)
    everExisted,  \* (patternId, periodKey) pairs that have had an Event
    workers,      \* requests in flight, one per connection
    probe         \* pure-function probes: input and computed output

vars ==
    <<patterns, events, nextEventId, last, run, everExisted, workers, probe>>

Null == <<>>

Some(x) == <<x>>

defaultHour == 19

MsPerHour == 3600000

PatternIds == 1..Len(patterns)

EventIds == {e.id : e \in events}

EventById(id) == CHOOSE e \in events : e.id = id

\* prisma.event.count({where: {patternId, periodKey}}) on the rows evs
CountEvents(evs, patternId, periodKey) ==
    Cardinality({e \in evs : e.patternId = patternId /\ e.periodKey = periodKey})

\* a satisfaction check that wants more than one Event
isPatternSatisfiedAboveOne(evs, patternId, periodKey) ==
    CountEvents(evs, patternId, periodKey) > 1

\* isPatternSatisfied: count > 0
isPatternSatisfied(evs, patternId, periodKey) ==
    CountEvents(evs, patternId, periodKey) > 0

\* getPatternCompletionCount
getPatternCompletionCount(evs, patternId, periodKey) ==
    CountEvents(evs, patternId, periodKey)

\* prisma.event.findFirst({where: {patternId, periodKey}}) is non-null
findFirstExists(evs, patternId, periodKey) ==
    \E e \in evs : e.patternId = patternId /\ e.periodKey = periodKey

\* The Event table accepts a row: dates must be valid Dates, startTime is
\* NOT NULL (ALTER COLUMN "startTime" SET NOT NULL), and a parentEventId
\* must reference an existing row (Event_parentEventId_fkey).
\* The index on (patternId, periodKey) is a plain index: it rejects nothing.
RowAccepted(evs, row) ==
    /\ row.deadline = Null \/ row.deadline[1].valid
    /\ row.startTime # Null /\ row.startTime[1].valid
    /\ row.parentEventId = 0 \/ \E e \in evs : e.id = row.parentEventId

(***************************************************************************)
(* recurrenceService: calculateNthWeekdayOfMonth, calculateStartTime       *)
(***************************************************************************)
\* lines 198-213: the selection among the occurrences found
\* a selection that falls back to the last occurrence
NthOccurrenceClamped(occurrences, occurrence) ==
    IF Len(occurrences) = 0 THEN [ok |-> FALSE, day |-> 0, error |-> "NoMatch"]
    ELSE IF occurrence = -1 \/ occurrence > Len(occurrences)
         THEN [ok |-> TRUE, day |-> occurrences[Len(occurrences)], error |-> "none"]
    ELSE IF occurrence > 0
         THEN [ok |-> TRUE, day |-> occurrences[occurrence], error |-> "none"]
    ELSE [ok |-> FALSE, day |-> 0, error |-> "OutOfRange"]

\* error names the throw: "NoMatch" for line 199, "OutOfRange" for line 210
NthOccurrence(occurrences, occurrence) ==
    IF Len(occurrences) = 0 THEN [ok |-> FALSE, day |-> 0, error |-> "NoMatch"]
    ELSE IF occurrence = -1
         THEN [ok |-> TRUE, day |-> occurrences[Len(occurrences)], error |-> "none"]
    ELSE IF occurrence > 0 /\ occurrence <= Len(occurrences)
         THEN [ok |-> TRUE, day |-> occurrences[occurrence], error |-> "none"]
    ELSE [ok |-> FALSE, day |-> 0, error |-> "OutOfRange"]

\* a search that numbers the weekdays from Monday = 0
WeekdayOccurrencesFromMonday(firstDay, lastDay, weekday) ==
    SelectSeq([i \in 1..(lastDay - firstDay + 1) |-> firstDay + i - 1],
              LAMBDA d : getDay(d) = (weekday + 1) % 7)

\* lines 184-196: the days firstDay..lastDay that fall on weekday, ascending
WeekdayOccurrences(firstDay, lastDay, weekday) ==
    SelectSeq([i \in 1..(lastDay - firstDay + 1) |-> firstDay + i - 1],
              LAMBDA d : getDay(d) = weekday)

\* calculateNthWeekdayOfMonth(year, month (0-indexed), weekday, occurrence):
\* [ok |-> TRUE, day |-> d], or ok = FALSE when it throws
calculateNthWeekdayOfMonth(year, month, weekday, occurrence) ==
    NthOccurrence(
        WeekdayOccurrences(NewDateDay(year, month, 1),
                           NewDateDay(year, month + 1, 0), weekday),
        occurrence)

AtDefaultHour(d) == MkDate(d, defaultHour * MsPerHour)

\* lines 117-133: the yearly date in `year`. isLeapYear is handed the number
\* `year`, which date-fns reads as a timestamp of `year` milliseconds.
YearlyStartDay(config, year) ==
    LET day1 == IF config.month = 2 /\ config.day = 29
                   /\ ~isLeapYear(year \div MsPerDay)
                THEN 28 ELSE config.day
        dim  == getDaysInMonth(year, config.month - 1)
        day2 == IF day1 > dim THEN dim ELSE day1
    IN  NewDateDay(year, config.month - 1, day2)

\* lines 141-149
NthWeekdayStart(nth) ==
    IF nth.ok THEN [ok |-> TRUE, date |-> AtDefaultHour(nth.day)]
    ELSE [ok |-> FALSE, date |-> InvalidDate]

\* a start on the day of the pattern's own startTime
calculateStartTimeOfPattern(pattern, referenceDate) ==
    CASE pattern.frequency \in {"weekly", "monthly", "n_per_period", "every_n_days"} ->
           [ok |-> TRUE, date |-> AtDefaultHour(pattern.startTime[1].day)]
      [] pattern.frequency = "yearly" ->
           IF pattern.yearlyConfig = Null
           THEN [ok |-> FALSE, date |-> InvalidDate]
           ELSE [ok |-> TRUE,
                 date |-> AtDefaultHour(
                              YearlyStartDay(pattern.yearlyConfig[1],
                                             getFullYear(referenceDate.day)))]
      [] pattern.frequency = "nth_weekday_of_month" ->
           IF pattern.nthWeekdayConfig = Null
           THEN [ok |-> FALSE, date |-> InvalidDate]
           ELSE NthWeekdayStart(
                    calculateNthWeekdayOfMonth(
                        getFullYear(referenceDate.day),
                        getMonth(referenceDate.day),
                        pattern.nthWeekdayConfig[1].weekday,
                        pattern.nthWeekdayConfig[1].occurrence))
      [] OTHER -> [ok |-> FALSE, date |-> InvalidDate]

\* calculateStartTime(pattern, referenceDate): [ok |-> TRUE, date |-> Date],
\* or ok = FALSE when it throws
calculateStartTime(pattern, referenceDate) ==
    CASE pattern.frequency \in {"weekly", "monthly", "n_per_period", "every_n_days"} ->
           [ok |-> TRUE, date |-> AtDefaultHour(referenceDate.day)]
      [] pattern.frequency = "yearly" ->
           IF pattern.yearlyConfig = Null
           THEN [ok |-> FALSE, date |-> InvalidDate]
           ELSE [ok |-> TRUE,
                 date |-> AtDefaultHour(
                              YearlyStartDay(pattern.yearlyConfig[1],
                                             getFullYear(referenceDate.day)))]
      [] pattern.frequency = "nth_weekday_of_month" ->
           IF pattern.nthWeekdayConfig = Null
           THEN [ok |-> FALSE, date |-> InvalidDate]
           ELSE NthWeekdayStart(
                    calculateNthWeekdayOfMonth(
                        getFullYear(referenceDate.day),
                        getMonth(referenceDate.day),
                        pattern.nthWeekdayConfig[1].weekday,
                        pattern.nthWeekdayConfig[1].occurrence))
      [] OTHER -> [ok |-> FALSE, date |-> InvalidDate]

(***************************************************************************)
(* recurrenceService: generateInstanceForPeriod, split at its two store    *)
(* accesses (the count, then the create)                                   *)
(***************************************************************************)
\* a satisfaction check without the n_per_period branch
GenerationNeededUnlessAny(evs, pattern, periodKey) ==
    ~isPatternSatisfied(evs, pattern.id, periodKey)

\* lines 48-60: TRUE when the satisfaction check lets generation proceed
GenerationNeeded(evs, pattern, periodKey) ==
    IF pattern.frequency # "n_per_period"
    THEN ~isPatternSatisfied(evs, pattern.id, periodKey)
    ELSE ~(getPatternCompletionCount(evs, pattern.id, periodKey)
              >= pattern.frequencyValue)

\* lines 75-84: the data of prisma.event.create
GeneratedData(pattern, periodKey, id, st, dl) ==
    [ok  |-> st.ok /\ dl.ok,
     row |-> [id              |-> id,
              title           |-> pattern.title,
              startTime       |-> IF pattern.flexibleScheduling
                                  THEN Null ELSE Some(st.date),
              durationMinutes |-> pattern.durationMinutes,
              parentEventId   |-> 0,
              patternId       |-> pattern.id,
              periodKey       |-> periodKey,
              isTimeBound     |-> TRUE,
              deadline        |-> Some(dl.date),
              category        |-> "recurring"]]

\* lines 62-85: the row handed to prisma.event.create, or ok = FALSE when
\* calculateStartTime or getPeriodEndDate throws
GeneratedRow(pattern, periodKey, referenceDate, id) ==
    GeneratedData(pattern, periodKey, id,
                  IF ~pattern.flexibleScheduling
                  THEN calculateStartTime(pattern, referenceDate)
                  ELSE [ok |-> TRUE, date |-> InvalidDate],
                  getPeriodEndDate(periodKey, pattern.frequency))

\* a create that is issued before the failure of a calculation is noticed
CreateGeneratedEagerly(evs, g) ==
    IF g.ok /\ RowAccepted(evs, g.row)
    THEN [result |-> "created", events |-> evs \cup {g.row}]
    ELSE [result |-> "throw", events |-> evs \cup {g.row}]

\* line 74: prisma.event.create of the generated row g on the rows evs
CreateGenerated(evs, g) ==
    IF g.ok /\ RowAccepted(evs, g.row)
    THEN [result |-> "created", events |-> evs \cup {g.row}]
    ELSE [result |-> "throw", events |-> evs]

\* generateInstanceForPeriod run without interruption on the rows evs:
\* result "created" (with the new rows), "null" or "throw"
generateInstanceForPeriod(evs, pattern, periodKey, referenceDate, id) ==
    IF ~GenerationNeeded(evs, pattern, periodKey)
    THEN [result |-> "null", events |-> evs]
    ELSE CreateGenerated(evs, GeneratedRow(pattern, periodKey, referenceDate, id))

(***************************************************************************)
(* virtualEventService: getPeriodsInRange, createVirtualEvent,             *)
(* generateVirtualEventsForRange                                           *)
(***************************************************************************)
RECURSIVE WeeklyPeriods(_, _, _)
WeeklyPeriods(current, end, frequency) ==
    IF current <= end
    THEN <<getPeriodKey(current, frequency).key>>
            \o WeeklyPeriods(current + 7, end, frequency)
    ELSE <<>>

RECURSIVE MonthlyPeriods(_, _, _)
MonthlyPeriods(current, end, frequency) ==
    IF current <= end
    THEN <<getPeriodKey(current, frequency).key>>
            \o MonthlyPeriods(
                   MakeDay(getFullYear(current), getMonth(current) + 1,
                              getDate(current)),
                   end, frequency)
    ELSE <<>>

RECURSIVE YearlyPeriods(_, _, _)
YearlyPeriods(current, end, frequency) ==
    IF current <= end
    THEN <<getPeriodKey(current, frequency).key>>
            \o YearlyPeriods(
                   MakeDay(getFullYear(current) + 1, getMonth(current),
                              getDate(current)),
                   end, frequency)
    ELSE <<>>

\* getPeriodsInRange(startDate, endDate, frequency): the period keys, in
\* order. The loop variable is a midnight and the end bound a 23:59:59.999,
\* so current <= end compares their days.
getPeriodsInRange(startDate, endDate, frequency) ==
    CASE frequency \in {"weekly", "n_per_period"} ->
           WeeklyPeriods(startOfWeekDay(startDate.day),
                         endOfWeekDay(endDate.day), frequency)
      [] frequency \in {"monthly", "nth_weekday_of_month"} ->
           MonthlyPeriods(startOfMonthDay(startDate.day),
                          endOfMonthDay(endDate.day), frequency)
      [] frequency = "yearly" ->
           YearlyPeriods(startOfYearDay(startDate.day),
                         endOfYearDay(endDate.day), frequency)
      [] OTHER -> <<>>

VirtualPrefix == <<"v", "i", "r", "t", "u", "a", "l", "-">>

\* an id built from the pattern alone
createVirtualEventOfPattern(pattern, periodKey, frequency) ==
    [id              |-> VirtualPrefix \o toString(pattern.id),
     title           |-> pattern.title,
     durationMinutes |-> pattern.durationMinutes,
     patternId       |-> pattern.id,
     periodKey       |-> periodKey,
     category        |-> "recurring",
     isFlexible      |-> pattern.flexibleScheduling,
     deadline        |-> getPeriodEndDate(periodKey, frequency).date,
     notes           |-> ""]

createVirtualEvent(pattern, periodKey, frequency) ==
    [id              |-> VirtualPrefix \o toString(pattern.id) \o <<"-">>
                           \o periodKey,
     title           |-> pattern.title,
     durationMinutes |-> pattern.durationMinutes,
     patternId       |-> pattern.id,
     periodKey       |-> periodKey,
     category        |-> "recurring",
     isFlexible      |-> pattern.flexibleScheduling,
     deadline        |-> getPeriodEndDate(periodKey, frequency).date,
     notes           |-> ""]

\* a period filter that consults the count alone
VirtualEmittedByCount(existingEvent, count, pattern) ==
    ~(pattern.frequency = "n_per_period" /\ count >= pattern.frequencyValue)

\* lines 379-397: whether a period yields a virtual event, given the
\* findFirst result and the count read from the store
VirtualEmitted(existingEvent, count, pattern) ==
    IF ~existingEvent
    THEN IF pattern.frequency = "n_per_period" /\ count >= pattern.frequencyValue
         THEN FALSE
         ELSE TRUE
    ELSE FALSE

\* lines 367-398: the periods that yield a virtual event, every read on evs
EmittedPeriods(evs, pattern, periods) ==
    SelectSeq(periods,
              LAMBDA k : VirtualEmitted(findFirstExists(evs, pattern.id, k),
                                        CountEvents(evs, pattern.id, k), pattern))

VirtualEventsFor(pattern, kept) ==
    [i \in 1..Len(kept) |-> createVirtualEvent(pattern, kept[i], pattern.frequency)]

\* lines 357-398, one pattern of the loop
VirtualEventsOfPattern(evs, pattern, startDate, endDate) ==
    IF pattern.frequency = "every_n_days" THEN <<>>
    ELSE VirtualEventsFor(
             pattern,
             EmittedPeriods(evs, pattern,
                 getPeriodsInRange(startDate, endDate, pattern.frequency)))

\* a findMany without the where clause
AllPatterns(pats) == pats

\* prisma.recurrencePattern.findMany({where: {active: true}})
ActivePatterns(pats) == SelectSeq(pats, LAMBDA p : p.active)

RECURSIVE VirtualEventsOfPatterns(_, _, _, _)
VirtualEventsOfPatterns(evs, pats, startDate, endDate) ==
    IF pats = <<>> THEN <<>>
    ELSE VirtualEventsOfPattern(evs, Head(pats), startDate, endDate)
            \o VirtualEventsOfPatterns(evs, Tail(pats), startDate, endDate)

\* generateVirtualEventsForRange run without interruption
generateVirtualEventsForRange(pats, evs, startDate, endDate) ==
    VirtualEventsOfPatterns(evs, ActivePatterns(pats), startDate, endDate)

(***************************************************************************)
(* Bounds and request inputs                                               *)
(***************************************************************************)
MaxPatterns == 2

MaxEvents == 2

MaxRun == 3

\* 2025-10-10, a Friday of ISO week 2025-W41
BaseDay == NewDateDay(2025, 9, 10)

Noon == 12 * MsPerHour

\* values of new Date() seen by the handlers
NowDates == {MkDate(BaseDay, Noon)}

\* period keys sent by clients: a weekly key (the week after BaseDay's) and
\* a yearly key, which is malformed for a weekly pattern
KeyInputs ==
    {getPeriodKey(BaseDay + 3, "weekly").key, getPeriodKey(BaseDay, "yearly").key}

\* [start, end] of GET /api/events: Friday 2025-10-10 to Monday 2025-10-13
Ranges == {<<MkDate(BaseDay, 0), MkDate(BaseDay + 3, 0)>>}

PatternRequest(frequency, frequencyValue, nth, yearly, flexible, startTime) ==
    [title              |-> "chore",
     frequency          |-> frequency,
     frequencyValue     |-> frequencyValue,
     durationMinutes    |-> 30,
     nthWeekdayConfig   |-> nth,
     yearlyConfig       |-> yearly,
     yearlyNthWeekday   |-> Null,
     flexibleScheduling |-> flexible,
     startTime          |-> startTime]

\* bodies of POST /api/patterns
PatternRequests ==
    {PatternRequest("weekly", 1, Null, Null, Some(FALSE),
                    Some(MkDate(BaseDay, Noon))),
     PatternRequest("weekly", 2, Null, Null, Null, Null),
     PatternRequest("n_per_period", 2, Null, Null, Some(FALSE),
                    Some(MkDate(BaseDay, Noon)))}

\* bodies of PATCH /api/patterns/:id (a missing field is Null)
PatternUpdates ==
    {[title |-> Null, durationMinutes |-> Null, active |-> Some(TRUE)],
     [title |-> Some(""), durationMinutes |-> Some(45), active |-> Null]}

(***************************************************************************)
(* routes/patterns.ts                                                      *)
(***************************************************************************)
\* String.prototype.trim on the titles of the request bodies
trim(title) ==
    CASE title = " " -> ""
      [] title = " walk " -> "walk"
      [] OTHER -> title

\* validatePatternConfig: TRUE when it returns null (valid)
validatePatternConfig(frequency, config) ==
    CASE frequency = "weekly" -> config.frequencyValue = 1
      [] frequency = "monthly" -> config.frequencyValue = 1
      [] frequency = "yearly" ->
           /\ config.yearlyConfig # Null
           /\ ~(config.yearlyConfig[1].month < 1 \/ config.yearlyConfig[1].month > 12)
           /\ ~(config.yearlyConfig[1].day < 1 \/ config.yearlyConfig[1].day > 31)
      [] frequency = "every_n_days" -> ~(config.frequencyValue < 1)
      [] frequency = "n_per_period" -> ~(config.frequencyValue < 1)
      [] frequency = "nth_weekday_of_month" ->
           /\ config.nthWeekdayConfig # Null
           /\ ~(config.nthWeekdayConfig[1].weekday < 0
                  \/ config.nthWeekdayConfig[1].weekday > 6)
           /\ ~(config.nthWeekdayConfig[1].occurrence < 1
                  \/ (config.nthWeekdayConfig[1].occurrence > 4
                        /\ config.nthWeekdayConfig[1].occurrence # -1))
      [] OTHER -> FALSE

\* a creation that does not compare flexibleScheduling with startTime
CreatePatternResponseOfAnyStart(req, id) ==
    LET isFlexible == IF req.flexibleScheduling = Null THEN TRUE
                      ELSE req.flexibleScheduling[1]
    IN  IF req.title = "" \/ trim(req.title) = ""
        THEN [status |-> 400, row |-> Null]
        ELSE IF req.frequency = "" THEN [status |-> 400, row |-> Null]
        ELSE IF req.durationMinutes <= 0 THEN [status |-> 400, row |-> Null]
        ELSE IF ~validatePatternConfig(req.frequency, req)
             THEN [status |-> 400, row |-> Null]
        ELSE [status |-> 201,
              row |-> Some([id                 |-> id,
                            title              |-> trim(req.title),
                            frequency          |-> req.frequency,
                            frequencyValue     |-> req.frequencyValue,
                            durationMinutes    |-> req.durationMinutes,
                            nthWeekdayConfig   |-> req.nthWeekdayConfig,
                            yearlyConfig       |-> req.yearlyConfig,
                            yearlyNthWeekday   |-> req.yearlyNthWeekday,
                            flexibleScheduling |-> isFlexible,
                            startTime          |-> req.startTime,
                            active             |-> TRUE])]

\* POST /api/patterns: the status, and the row created on 201
CreatePatternResponse(req, id) ==
    LET isFlexible == IF req.flexibleScheduling = Null THEN TRUE
                      ELSE req.flexibleScheduling[1]
    IN  IF req.title = "" \/ trim(req.title) = ""
        THEN [status |-> 400, row |-> Null]
        ELSE IF req.frequency = "" THEN [status |-> 400, row |-> Null]
        ELSE IF req.durationMinutes <= 0 THEN [status |-> 400, row |-> Null]
        ELSE IF ~isFlexible /\ req.startTime = Null
             THEN [status |-> 400, row |-> Null]
        ELSE IF isFlexible /\ req.startTime # Null
             THEN [status |-> 400, row |-> Null]
        ELSE IF ~validatePatternConfig(req.frequency, req)
             THEN [status |-> 400, row |-> Null]
        ELSE [status |-> 201,
              row |-> Some([id                 |-> id,
                            title              |-> trim(req.title),
                            frequency          |-> req.frequency,
                            frequencyValue     |-> req.frequencyValue,
                            durationMinutes    |-> req.durationMinutes,
                            nthWeekdayConfig   |-> req.nthWeekdayConfig,
                            yearlyConfig       |-> req.yearlyConfig,
                            yearlyNthWeekday   |-> req.yearlyNthWeekday,
                            flexibleScheduling |-> isFlexible,
                            startTime          |-> req.startTime,
                            active             |-> TRUE])]

\* an update that copies the frequency of the body as well
UpdatePatternResponseOfBody(pattern, updates) ==
    IF updates.title # Null /\ trim(updates.title[1]) = ""
    THEN [status |-> 400, row |-> pattern]
    ELSE IF updates.durationMinutes # Null /\ updates.durationMinutes[1] <= 0
    THEN [status |-> 400, row |-> pattern]
    ELSE [status |-> 200,
          row |-> [pattern EXCEPT
                     !.title = IF updates.title # Null
                               THEN trim(updates.title[1]) ELSE @,
                     !.durationMinutes = IF updates.durationMinutes # Null
                                         THEN updates.durationMinutes[1] ELSE @,
                     !.active = IF updates.active # Null
                                THEN updates.active[1] ELSE @,
                     !.frequency = IF updates.frequency # Null
                                   THEN updates.frequency[1] ELSE @]]

\* PATCH /api/patterns/:id: the status, and the row after the update
UpdatePatternResponse(pattern, updates) ==
    IF updates.title # Null /\ trim(updates.title[1]) = ""
    THEN [status |-> 400, row |-> pattern]
    ELSE IF updates.durationMinutes # Null /\ updates.durationMinutes[1] <= 0
    THEN [status |-> 400, row |-> pattern]
    ELSE [status |-> 200,
          row |-> [pattern EXCEPT
                     !.title = IF updates.title # Null
                               THEN trim(updates.title[1]) ELSE @,
                     !.durationMinutes = IF updates.durationMinutes # Null
                                         THEN updates.durationMinutes[1] ELSE @,
                     !.active = IF updates.active # Null
                                THEN updates.active[1] ELSE @]]

(***************************************************************************)
(* routes/events.ts (POST, PATCH, DELETE /api/events)                      *)
(***************************************************************************)
EventRequest(startTime, parentEventId, patternId, periodKey) ==
    [title           |-> "task",
     startTime       |-> startTime,
     durationMinutes |-> 30,
     parentEventId   |-> parentEventId,
     patternId       |-> patternId,
     periodKey       |-> periodKey,
     category        |-> "",
     isTimeBound     |-> FALSE,
     deadline        |-> Null]

\* bodies of POST /api/events: a plain event, a child of event 1, commits of
\* a virtual event (patternId and periodKey), and a body without startTime
EventRequests ==
    {EventRequest(Some(MkDate(BaseDay, Noon)), parent, 0, Null) : parent \in {0, 1}}
    \cup {EventRequest(Some(MkDate(BaseDay, Noon)), 0, pid, key) :
            pid \in 1..MaxPatterns, key \in KeyInputs}
    \cup {EventRequest(Null, 0, 1, getPeriodKey(BaseDay, "weekly").key)}

\* bodies of PATCH /api/events/:id: a missing field is Null, a field that is
\* present carries Some(value)
EventUpdates ==
    {[startTime |-> Some(Some(MkDate(BaseDay, Noon))), parentEventId |-> Null],
     [startTime |-> Some(Null), parentEventId |-> Null]}

\* checks that never look for an Event of the pair
CreateEventChecksOfPattern(pats, evs, req) ==
    IF req.title = "" THEN 400
    ELSE IF req.startTime = Null THEN 400
    ELSE IF req.durationMinutes <= 0 THEN 400
    ELSE IF req.isTimeBound /\ req.deadline = Null THEN 400
    ELSE IF req.patternId # 0 /\ ~(req.patternId \in 1..Len(pats)) THEN 400
    ELSE IF req.patternId # 0 /\ ~pats[req.patternId].active THEN 400
    ELSE 0

\* POST /api/events, lines 139-187: the status of an early return, or 0 when
\* the handler goes on to create the row. pats and evs are the rows its
\* findUnique and findFirst read.
CreateEventChecks(pats, evs, req) ==
    IF req.title = "" THEN 400
    ELSE IF req.startTime = Null THEN 400
    ELSE IF req.durationMinutes <= 0 THEN 400
    ELSE IF req.isTimeBound /\ req.deadline = Null THEN 400
    ELSE IF req.patternId # 0 /\ ~(req.patternId \in 1..Len(pats)) THEN 400
    ELSE IF req.patternId # 0 /\ ~pats[req.patternId].active THEN 400
    ELSE IF req.patternId # 0 /\ req.periodKey # Null
            /\ findFirstExists(evs, req.patternId, req.periodKey) THEN 409
    ELSE 0

\* lines 190-204: the row handed to prisma.event.create
CreateEventRow(req, id) ==
    [id              |-> id,
     title           |-> req.title,
     startTime       |-> req.startTime,
     durationMinutes |-> req.durationMinutes,
     parentEventId   |-> req.parentEventId,
     patternId       |-> req.patternId,
     periodKey       |-> req.periodKey,
     isTimeBound     |-> req.isTimeBound,
     deadline        |-> req.deadline,
     category        |-> IF req.category = "" THEN "general" ELSE req.category]

\* PATCH /api/events/:id on an existing row: the status and the row after
UpdateEventResponse(evs, row, updates) ==
    IF updates.startTime # Null /\ updates.startTime[1] = Null
    THEN [status |-> 400, row |-> row]
    ELSE LET new == [row EXCEPT
                       !.startTime = IF updates.startTime # Null
                                     THEN updates.startTime[1] ELSE @,
                       !.parentEventId = IF updates.parentEventId # Null
                                         THEN updates.parentEventId[1] ELSE @]
         IN  IF RowAccepted(evs, new)
             THEN [status |-> 200, row |-> new]
             ELSE [status |-> 500, row |-> row]

\* ON DELETE CASCADE of Event_parentEventId_fkey: the rows removed with ids
RECURSIVE CascadeClosure(_, _)
CascadeClosure(evs, ids) ==
    LET more == ids \cup {e.id : e \in {c \in evs : c.parentEventId \in ids}}
    IN  IF more = ids THEN ids ELSE CascadeClosure(evs, more)

RowsAfterDelete(evs, id) ==
    {e \in evs : e.id \notin CascadeClosure(evs, {id})}

(***************************************************************************)
(* Bookkeeping of requests and responses                                   *)
(***************************************************************************)
NoResponse ==
    [op |-> "none", status |-> 0, pid |-> 0, key |-> Null, result |-> "none",
     range |-> <<>>, virtual |-> <<>>]

NoRun == [pid |-> 0, key |-> Null, n |-> 0]

PairsOf(evs) ==
    {<<e.patternId, e.periodKey>> :
        e \in {x \in evs : x.patternId # 0 /\ x.periodKey # Null}}

\* the run of consecutive generate calls after one more call
RunAfter(pid, key, result, before) ==
    IF result = "throw" THEN NoRun
    ELSE IF run.n > 0 /\ run.pid = pid /\ run.key = key
    THEN [run EXCEPT !.n = IF @ < MaxRun THEN @ + 1 ELSE @]
    ELSE IF before = 0 THEN [pid |-> pid, key |-> key, n |-> 1]
    ELSE NoRun

\* every write of the Event table goes through here
StoreEvents(evs) ==
    /\ events' = evs
    /\ everExisted' = everExisted \cup PairsOf(evs)

(***************************************************************************)
(* The requests, each run from start to end without interleaving           *)
(***************************************************************************)
Respond(r) ==
    /\ last' = r
    /\ UNCHANGED <<workers, probe>>

\* POST /api/patterns
CreatePattern(req) ==
    LET resp == CreatePatternResponse(req, Len(patterns) + 1)
    IN  /\ resp.status = 201 => Len(patterns) < MaxPatterns
        /\ patterns' = IF resp.status = 201
                       THEN Append(patterns, resp.row[1]) ELSE patterns
        /\ run' = NoRun
        /\ Respond([NoResponse EXCEPT !.op = "createPattern",
                                      !.status = resp.status])
        /\ UNCHANGED <<events, nextEventId, everExisted>>

\* PATCH /api/patterns/:id
UpdatePattern(id, updates) ==
    LET resp == IF id \in PatternIds
                THEN UpdatePatternResponse(patterns[id], updates)
                ELSE [status |-> 404, row |-> Null]
    IN  /\ patterns' = IF resp.status = 200
                       THEN [patterns EXCEPT ![id] = resp.row] ELSE patterns
        /\ run' = NoRun
        /\ Respond([NoResponse EXCEPT !.op = "updatePattern",
                                      !.status = resp.status])
        /\ UNCHANGED <<events, nextEventId, everExisted>>

\* DELETE /api/patterns/:id (soft delete)
DeletePattern(id) ==
    /\ patterns' = IF id \in PatternIds
                   THEN [patterns EXCEPT ![id].active = FALSE] ELSE patterns
    /\ run' = NoRun
    /\ Respond([NoResponse EXCEPT !.op = "deletePattern",
                                  !.status = IF id \in PatternIds
                                             THEN 204 ELSE 404])
    /\ UNCHANGED <<events, nextEventId, everExisted>>

WithKey(g, periodKey) ==
    [result |-> g.result, events |-> g.events, key |-> periodKey]

GenerateForKey(evs, pattern, periodKey, now, eid) ==
    WithKey(generateInstanceForPeriod(evs, pattern, periodKey, now, eid), periodKey)

\* a lookup that checks only that the pattern exists
generateInstanceForCurrentPeriodOfAny(pats, evs, id, now, eid) ==
    IF ~(id \in 1..Len(pats))
    THEN [result |-> "null", events |-> evs, key |-> Null]
    ELSE IF pats[id].frequency = "every_n_days"
    THEN [result |-> "throw", events |-> evs, key |-> Null]
    ELSE GenerateForKey(evs, pats[id],
                        getPeriodKey(now.day, pats[id].frequency).key, now, eid)

\* generateInstanceForCurrentPeriod(patternId) with new Date() = now:
\* result, rows and the period key it computed
generateInstanceForCurrentPeriod(pats, evs, id, now, eid) ==
    IF ~(id \in 1..Len(pats)) \/ ~pats[id].active
    THEN [result |-> "null", events |-> evs, key |-> Null]
    ELSE IF pats[id].frequency = "every_n_days"
    THEN [result |-> "throw", events |-> evs, key |-> Null]
    ELSE GenerateForKey(evs, pats[id],
                        getPeriodKey(now.day, pats[id].frequency).key, now, eid)

Routed(g) ==
    [status |-> 0, result |-> g.result, events |-> g.events, key |-> g.key]

\* POST /api/patterns/:id/generate-instance, lines 319-340; periodKey = Null
\* when the body has none. status 0: the handler goes on to the response
\* for the generated result.
GenerateInstanceResult(pats, evs, id, periodKey, now, eid) ==
    IF ~(id \in 1..Len(pats))
    THEN [status |-> 404, result |-> "none", events |-> evs, key |-> Null]
    ELSE IF ~pats[id].active
    THEN [status |-> 400, result |-> "none", events |-> evs, key |-> Null]
    ELSE IF periodKey # Null
    THEN Routed(GenerateForKey(evs, pats[id], periodKey, now, eid))
    ELSE Routed(generateInstanceForCurrentPeriod(pats, evs, id, now, eid))

\* lines 342-356: the status of the response
GenerateStatus(g) ==
    IF g.status # 0 THEN g.status
    ELSE IF g.result = "created" THEN 201
    ELSE IF g.result = "null" THEN 409
    ELSE 400

GenerateInstanceRespond(id, g, before) ==
    /\ g.result = "created" => nextEventId <= MaxEvents
    /\ StoreEvents(g.events)
    /\ nextEventId' = IF g.result = "created" THEN nextEventId + 1 ELSE nextEventId
    /\ run' = IF g.status = 0 THEN RunAfter(id, g.key, g.result, before) ELSE NoRun
    /\ Respond([NoResponse EXCEPT
                  !.op = "generate", !.pid = id, !.key = g.key,
                  !.result = g.result,
                  !.status = GenerateStatus(g)])
    /\ UNCHANGED patterns

GenerateInstanceWith(id, g) ==
    GenerateInstanceRespond(id, g, CountEvents(events, id, g.key))

GenerateInstance(id, periodKey, now) ==
    GenerateInstanceWith(
        id, GenerateInstanceResult(patterns, events, id, periodKey, now, nextEventId))

\* POST /api/events
CreateEvent(req) ==
    LET early   == CreateEventChecks(patterns, events, req)
        row     == CreateEventRow(req, nextEventId)
        status  == IF early # 0 THEN early
                   ELSE IF RowAccepted(events, row) THEN 201 ELSE 500
    IN  /\ status = 201 => nextEventId <= MaxEvents
        /\ StoreEvents(IF status = 201 THEN events \cup {row} ELSE events)
        /\ nextEventId' = IF status = 201 THEN nextEventId + 1 ELSE nextEventId
        /\ run' = NoRun
        /\ Respond([NoResponse EXCEPT
                      !.op = "createEvent", !.pid = req.patternId,
                      !.key = req.periodKey, !.status = status])
        /\ UNCHANGED patterns

\* PATCH /api/events/:id
UpdateEvent(id, updates) ==
    LET resp == IF id \in EventIds
                THEN UpdateEventResponse(events, EventById(id), updates)
                ELSE [status |-> 404, row |-> Null]
    IN  /\ StoreEvents(IF resp.status = 200
                       THEN (events \ {EventById(id)}) \cup {resp.row}
                       ELSE events)
        /\ run' = NoRun
        /\ Respond([NoResponse EXCEPT !.op = "updateEvent",
                                      !.status = resp.status])
        /\ UNCHANGED <<patterns, nextEventId>>

\* DELETE /api/events/:id
DeleteEvent(id) ==
    /\ StoreEvents(IF id \in EventIds THEN RowsAfterDelete(events, id) ELSE events)
    /\ run' = NoRun
    /\ Respond([NoResponse EXCEPT !.op = "deleteEvent",
                                  !.status = IF id \in EventIds THEN 204 ELSE 404])
    /\ UNCHANGED <<patterns, nextEventId>>

\* GET /api/events?start=..&end=.. : virtualEventsInRange
GetEvents(startDate, endDate) ==
    /\ run' = NoRun
    /\ Respond([NoResponse EXCEPT
                  !.op = "getEvents", !.status = 200,
                  !.range = <<startDate, endDate>>,
                  !.virtual = generateVirtualEventsForRange(
                                  patterns, events, startDate, endDate)])
    /\ UNCHANGED <<patterns, events, nextEventId, everExisted>>

NoWorkers == <<>>

NoProbe == <<>>

StoreInit ==
    /\ patterns = <<>>
    /\ events = {}
    /\ nextEventId = 1
    /\ last = NoResponse
    /\ run = NoRun
    /\ everExisted = {}

SeqInit == StoreInit /\ workers = NoWorkers /\ probe = NoProbe

SeqNext ==
    \/ \E req \in PatternRequests : CreatePattern(req)
    \/ \E id \in 1..MaxPatterns, u \in PatternUpdates : UpdatePattern(id, u)
    \/ \E id \in 1..MaxPatterns : DeletePattern(id)
    \/ \E id \in 1..MaxPatterns, k \in KeyInputs \cup {Null}, now \in NowDates :
          GenerateInstance(id, k, now)
    \/ \E req \in EventRequests : CreateEvent(req)
    \/ \E id \in 1..MaxEvents, u \in EventUpdates : UpdateEvent(id, u)
    \/ \E id \in 1..MaxEvents : DeleteEvent(id)
    \/ \E r \in Ranges : GetEvents(r[1], r[2])

\* every request completes before the next one starts
SpecSeq == SeqInit /\ [][SeqNext]_vars

(***************************************************************************)
(* Properties of the sequential system                                     *)
(***************************************************************************)
VirtualPairs(virtual) ==
    {<<virtual[i].patternId, virtual[i].periodKey>> : i \in 1..Len(virtual)}

KeysOf(periods) == {periods[i] : i \in 1..Len(periods)}

\* the period keys of a pattern's frequency that overlap a range
RangeKeys(pattern, range) ==
    KeysOf(getPeriodsInRange(range[1], range[2], pattern.frequency))

C5_NeverReappears ==
    last.op = "getEvents" => VirtualPairs(last.virtual) \cap everExisted = {}

\* C5 amended: a virtualEventsInRange call returns no VirtualEvent for a
\* (patternId, periodKey) that has a persisted Event at the time of the
\* call; a pair whose Events have all been deleted is unsatisfied again, and
\* the call returns its VirtualEvent when the pattern is active and the
\* period overlaps the range.
C5_SuppressedWhilePersisted ==
    last.op = "getEvents"
    => /\ VirtualPairs(last.virtual) \cap PairsOf(events) = {}
       /\ \A pair \in everExisted \ PairsOf(events) :
             (/\ pair[1] \in PatternIds
              /\ patterns[pair[1]].active
              /\ pair[2] \in RangeKeys(patterns[pair[1]], last.range))
             => pair \in VirtualPairs(last.virtual)

C5_SuppressedPair ==
    /\ last.op = "getEvents"
    /\ \E pair \in PairsOf(events) :
          /\ patterns[pair[1]].active
          /\ pair[2] \in RangeKeys(patterns[pair[1]], last.range)
          /\ pair \notin VirtualPairs(last.virtual)

\* C7 as stated: for an active n_per_period pattern, virtualEventsInRange
\* omits a period of the range only when the number of persisted Events of
\* (patternId, periodKey) has reached frequencyValue.
C7_OmittedOnlyWhenFull ==
    last.op = "getEvents"
    => \A id \in PatternIds :
          (patterns[id].active /\ patterns[id].frequency = "n_per_period")
          => \A key \in RangeKeys(patterns[id], last.range) :
                <<id, key>> \notin VirtualPairs(last.virtual)
                => CountEvents(events, id, key) >= patterns[id].frequencyValue

(***************************************************************************)
(* Period round trip: getPeriodEndDate(getPeriodKey(d, f), f)              *)
(***************************************************************************)
\* days probed after each start
ProbeSpan == 45

\* 0049-12-20, 2024-02-20, 2024-12-20 and 2026-12-20: the windows hold a leap
\* day, ISO week 2025-W01 (which starts on 2024-12-30) and ISO week 2026-W53
\* (which ends on 2027-01-03)
ProbeStarts ==
    {MakeDay(49, 11, 20), MakeDay(2024, 1, 20), MakeDay(2024, 11, 20),
     MakeDay(2026, 11, 20)}

ProbeDays == UNION {start..(start + ProbeSpan) : start \in ProbeStarts}

ProbeTimes == {0, Noon, EndOfDayMs}

PeriodProbes ==
    {[stage |-> "input", date |-> MkDate(d, t), frequency |-> f,
      key |-> Null, end |-> InvalidDate] :
        d \in ProbeDays, t \in ProbeTimes, f \in PeriodFrequencies}

PeriodEndOfKey(p, k) ==
    [p EXCEPT !.stage = "done", !.key = k.key,
              !.end = getPeriodEndDate(k.key, p.frequency).date]

\* getPeriodEndDate(getPeriodKey(date, frequency), frequency)
RoundTrip ==
    /\ probe.stage = "input"
    /\ probe' = PeriodEndOfKey(probe, getPeriodKey(probe.date.day, probe.frequency))
    /\ UNCHANGED <<patterns, events, nextEventId, last, run, everExisted, workers>>

\* keys handed to getPeriodEndDate: one well-formed key per format, and
\* strings of no format
ProbeKeys ==
    {<<"2", "0", "2", "5", "-", "W", "4", "1">>,
     <<"2", "0", "2", "5", "-", "1", "0">>,
     <<"2", "0", "2", "5">>,
     <<"W", "4", "1">>,
     <<"2", "0", "2", "5", "-", "W">>,
     <<>>}

KeyProbes ==
    {[stage |-> "key", date |-> InvalidDate, frequency |-> f,
      key |-> k, end |-> InvalidDate] :
        k \in ProbeKeys, f \in Frequencies}

PeriodEndResult(p, e) ==
    [p EXCEPT !.stage = IF e.ok THEN "returned" ELSE "threw", !.end = e.date]

\* getPeriodEndDate(key, frequency) on a key of any shape
PeriodEnd ==
    /\ probe.stage = "key"
    /\ probe' = PeriodEndResult(probe, getPeriodEndDate(probe.key, probe.frequency))
    /\ UNCHANGED <<patterns, events, nextEventId, last, run, everExisted, workers>>

PeriodInit ==
    StoreInit /\ workers = NoWorkers /\ probe \in PeriodProbes \cup KeyProbes

PeriodNext == RoundTrip \/ PeriodEnd

SpecPeriod == PeriodInit /\ [][PeriodNext]_vars

\* the first instant of the period after the one that holds date: next
\* Monday 00:00, the first day of next month, or 1 January of next year
NextPeriodStart(date, frequency) ==
    IF frequency \in {"weekly", "n_per_period"}
    THEN MkDate(date.day - ((getDay(date.day) + 6) % 7) + 7, 0)
    ELSE IF frequency \in {"monthly", "nth_weekday_of_month"}
    THEN MkDate(MakeDay(getFullYear(date.day), getMonth(date.day) + 1, 1), 0)
    ELSE MkDate(MakeDay(getFullYear(date.day) + 1, 0, 1), 0)

RoundTripHolds(date, end, frequency) ==
    /\ end.valid
    /\ DateLE(date, end)
    /\ DateLT(end, NextPeriodStart(date, frequency))

\* C10 as stated: for every date d and every period frequency f,
\* periodEnd(periodKey(d, f), f) is at or after d and strictly before the
\* start of the period that follows d's period.
C10_RoundTrip ==
    probe.stage = "done" => RoundTripHolds(probe.date, probe.end, probe.frequency)

\* the round trip holds for the probed dates whose calendar year and ISO
\* week-year are both outside 0..99
RoundTripOutsideEarlyYears ==
    (/\ probe.stage = "done"
     /\ getFullYear(probe.date.day) \notin 0..99
     /\ getISOWeekYear(probe.date.day) \notin 0..99)
    => RoundTripHolds(probe.date, probe.end, probe.frequency)

(***************************************************************************)
(* Range queries on tables of created patterns and committed events        *)
(***************************************************************************)
\* one valid POST /api/patterns body per frequency
RangePatternRequests ==
    {PatternRequest("weekly", 1, Null, Null, Null, Null),
     PatternRequest("monthly", 1, Null, Null, Null, Null),
     PatternRequest("yearly", 1, Null, Some([month |-> 2, day |-> 29]), Null, Null),
     PatternRequest("every_n_days", 3, Null, Null, Null, Null),
     PatternRequest("n_per_period", 2, Null, Null, Null, Null),
     PatternRequest("nth_weekday_of_month", 1,
                    Some([weekday |-> 1, occurrence |-> 1]), Null, Null, Null)}

SecondPatternRequests ==
    {r \in RangePatternRequests : r.frequency \in {"weekly", "every_n_days"}}
    \cup {PatternRequest("weekly", 1, Null, Null, Some(FALSE),
                         Some(MkDate(BaseDay, Noon)))}

CreatedPattern(req, id) == CreatePatternResponse(req, id).row[1]

\* RecurrencePattern tables after one or two POST /api/patterns
RangePatternTables ==
    {<<CreatedPattern(r, 1)>> : r \in RangePatternRequests}
    \cup {<<CreatedPattern(r1, 1), CreatedPattern(r2, 2)>> :
            r1 \in RangePatternRequests, r2 \in SecondPatternRequests}

\* the period key of BaseDay that a client commits for a pattern
CommitKey(pattern) ==
    IF pattern.frequency = "every_n_days" THEN getPeriodKey(BaseDay, "weekly").key
    ELSE getPeriodKey(BaseDay, pattern.frequency).key

\* the row of POST /api/events committing pattern id at BaseDay
CommittedRow(pats, id) ==
    CreateEventRow(
        EventRequest(Some(MkDate(BaseDay, Noon)), 0, id, CommitKey(pats[id])), id)

\* Event tables after at most one commit per pattern
RangeEventTables(pats) == SUBSET {CommittedRow(pats, id) : id \in 1..Len(pats)}

\* first days of the ranges: Friday 2025-10-10, Monday 2025-10-13, Monday
\* 2025-12-22 and Monday 0050-06-13
RangeStarts ==
    {BaseDay, BaseDay + 3, MakeDay(2025, 11, 22), MakeDay(50, 5, 13)}

\* days from the first to the last day of a range
RangeLengths == {0, 3, 13, 20, 45}

RangeInputs ==
    {<<MkDate(start, 0), MkDate(start + n, EndOfDayMs)>> :
        start \in RangeStarts, n \in RangeLengths}

RangeInit ==
    /\ patterns \in RangePatternTables
    /\ events \in RangeEventTables(patterns)
    /\ nextEventId = MaxPatterns + 1
    /\ last = NoResponse
    /\ run = NoRun
    /\ everExisted = PairsOf(events)
    /\ workers = NoWorkers
    /\ probe = NoProbe

RangeNext ==
    \/ \E r \in RangeInputs : GetEvents(r[1], r[2])
    \/ \E id \in 1..MaxPatterns : DeletePattern(id)

SpecRange == RangeInit /\ [][RangeNext]_vars

\* the virtual events of one pattern, in order
VirtualOf(virtual, id) == SelectSeq(virtual, LAMBDA v : v.patternId = id)

\* the last instant of the period of frequency that holds day d, to the second
IsPeriodEnd(date, d, frequency) ==
    /\ date.valid
    /\ date.ms >= EndOfDayMs - 999
    /\ date.day = IF frequency \in {"weekly", "n_per_period"}
                  THEN d + ((7 - getDay(d)) % 7)
                  ELSE IF frequency \in {"monthly", "nth_weekday_of_month"}
                  THEN MakeDay(getFullYear(d), getMonth(d) + 1, 1) - 1
                  ELSE MakeDay(getFullYear(d) + 1, 0, 1) - 1

\* vs holds exactly one virtual event for the period of every day of the
\* range, with that period's end as deadline, and nothing else
RangeComplete(vs, range, frequency) ==
    /\ \A d \in range[1].day..range[2].day :
          /\ Cardinality({i \in 1..Len(vs) :
                            vs[i].periodKey = getPeriodKey(d, frequency).key}) = 1
          /\ \A i \in 1..Len(vs) :
                vs[i].periodKey = getPeriodKey(d, frequency).key
                => IsPeriodEnd(vs[i].deadline, d, frequency)
    /\ \A i \in 1..Len(vs) :
          \E d \in range[1].day..range[2].day :
              vs[i].periodKey = getPeriodKey(d, frequency).key

HasNoEvents(id) == ~\E e \in events : e.patternId = id

\* C6 as stated: for an active pattern of a period frequency with no
\* persisted Events and a range with start <= end, virtualEventsInRange
\* returns exactly one VirtualEvent for every period that holds an instant
\* of the range, none for another period, no duplicates, each with the end
\* of its own period as deadline.
C6_RangeComplete ==
    last.op = "getEvents"
    => \A id \in PatternIds :
          (/\ patterns[id].active
           /\ patterns[id].frequency \in PeriodFrequencies
           /\ HasNoEvents(id))
          => RangeComplete(VirtualOf(last.virtual, id), last.range,
                           patterns[id].frequency)

\* the same for the ranges whose years are outside 0..99
RangeCompleteOutsideEarlyYears ==
    (last.op = "getEvents" /\ getFullYear(last.range[1].day) > 99)
    => \A id \in PatternIds :
          (/\ patterns[id].active
           /\ patterns[id].frequency \in PeriodFrequencies
           /\ HasNoEvents(id))
          => RangeComplete(VirtualOf(last.virtual, id), last.range,
                           patterns[id].frequency)

\* a period is unsatisfied: no Event of the pair, or fewer than
\* frequencyValue for n_per_period
Unsatisfied(pattern, periodKey) ==
    IF pattern.frequency = "n_per_period"
    THEN CountEvents(events, pattern.id, periodKey) < pattern.frequencyValue
    ELSE CountEvents(events, pattern.id, periodKey) = 0

\* C9: every VirtualEvent returned by virtualEventsInRange belongs to a
\* pattern that is active and not every_n_days at the time of the call, and
\* to a (patternId, periodKey) that no persisted Event satisfies; inactive
\* (soft-deleted) and every_n_days patterns contribute none.
C9_OnlyActiveUnsatisfied ==
    last.op = "getEvents"
    => \A i \in 1..Len(last.virtual) :
          /\ last.virtual[i].patternId \in PatternIds
          /\ patterns[last.virtual[i].patternId].active
          /\ patterns[last.virtual[i].patternId].frequency # "every_n_days"
          /\ Unsatisfied(patterns[last.virtual[i].patternId],
                         last.virtual[i].periodKey)

C9_FilteredQuery ==
    /\ last.op = "getEvents"
    /\ Len(last.virtual) > 0
    /\ \E id \in PatternIds :
          ~patterns[id].active \/ patterns[id].frequency = "every_n_days"
    /\ \E e \in events :
          /\ patterns[e.patternId].active
          /\ e.periodKey \in RangeKeys(patterns[e.patternId], last.range)

(***************************************************************************)
(* Concurrent requests: each handler is split at its awaits on the store,  *)
(* and the steps of different connections interleave                       *)
(***************************************************************************)
MaxWorkers == 2

Workers == 1..MaxWorkers

\* a connection: the request in flight (pc is the await it has reached), or
\* the last response (pc = "done")
IdleWorker ==
    [op |-> "none", pc |-> "idle", pid |-> 0, key |-> Null, result |-> "none",
     status |-> 0, range |-> <<>>, ki |-> 0, acc |-> <<>>, clean |-> TRUE]

\* the RecurrencePattern table after POST /api/patterns of a weekly and of
\* an n_per_period pattern
ConcPatternTable ==
    <<CreatedPattern(PatternRequest("weekly", 1, Null, Null, Some(FALSE),
                                    Some(MkDate(BaseDay, Noon))), 1),
      CreatedPattern(PatternRequest("n_per_period", 2, Null, Null, Some(FALSE),
                                    Some(MkDate(BaseDay, Noon))), 2)>>

ConcKeys == {getPeriodKey(BaseDay, "weekly").key}

Free(w) == workers[w].pc \in {"idle", "done"}

\* a write of the Event table is seen by the range queries in flight
MarkWritten(ws) ==
    [x \in DOMAIN ws |->
        IF ws[x].op = "query" /\ ws[x].pc # "done"
        THEN [ws[x] EXCEPT !.clean = FALSE] ELSE ws[x]]

StepOf(w, record) ==
    /\ workers' = [workers EXCEPT ![w] = record]
    /\ UNCHANGED <<patterns, events, nextEventId, last, run, everExisted, probe>>

\* a step that ends with prisma.event.create
CreateStepOf(w, created, evs, record) ==
    /\ created => nextEventId <= MaxEvents
    /\ StoreEvents(evs)
    /\ nextEventId' = IF created THEN nextEventId + 1 ELSE nextEventId
    /\ workers' = [(IF created THEN MarkWritten(workers) ELSE workers)
                      EXCEPT ![w] = record]
    /\ UNCHANGED <<patterns, last, run, probe>>

\* POST /api/patterns/:id/generate-instance with a periodKey, up to the
\* call of generateInstanceForPeriod (findUnique, lines 319-330)
StartGenerate(w, id, periodKey) ==
    /\ Free(w)
    /\ StepOf(w, [IdleWorker EXCEPT
                    !.op = "generate", !.pid = id, !.key = periodKey,
                    !.pc = IF id \in PatternIds /\ patterns[id].active
                           THEN "check" ELSE "done",
                    !.status = IF id \notin PatternIds THEN 404
                               ELSE IF ~patterns[id].active THEN 400 ELSE 0])

\* generateInstanceForPeriod lines 48-60: the count
GenerateCheck(w) ==
    /\ workers[w].op = "generate" /\ workers[w].pc = "check"
    /\ StepOf(w, IF GenerationNeeded(events, patterns[workers[w].pid],
                                     workers[w].key)
                 THEN [workers[w] EXCEPT !.pc = "create"]
                 ELSE [workers[w] EXCEPT !.pc = "done", !.result = "null",
                                         !.status = 409])

GenerateCreateWith(w, g) ==
    CreateStepOf(w, g.result = "created", g.events,
                 [workers[w] EXCEPT !.pc = "done", !.result = g.result,
                                    !.status = GenerateStatus(Routed(WithKey(g, Null)))])

\* generateInstanceForPeriod lines 62-87: the create, and the response
GenerateCreate(w, now) ==
    /\ workers[w].op = "generate" /\ workers[w].pc = "create"
    /\ GenerateCreateWith(
           w, CreateGenerated(events,
                              GeneratedRow(patterns[workers[w].pid],
                                           workers[w].key, now, nextEventId)))

\* the body of a commit: POST /api/events with patternId and periodKey
CommitRequest(pid, periodKey) ==
    EventRequest(Some(MkDate(BaseDay, Noon)), 0, pid, periodKey)

StartCommitWith(w, pid, periodKey, early) ==
    StepOf(w, [IdleWorker EXCEPT
                 !.op = "commit", !.pid = pid, !.key = periodKey,
                 !.pc = IF early = 0 THEN "findFirst" ELSE "done",
                 !.status = early])

\* POST /api/events lines 139-171: the validation and the findUnique
StartCommit(w, pid, periodKey) ==
    /\ Free(w)
    /\ StartCommitWith(w, pid, periodKey,
                       CreateEventChecks(patterns, {}, CommitRequest(pid, periodKey)))

\* lines 173-186: the findFirst
CommitFindFirst(w) ==
    /\ workers[w].op = "commit" /\ workers[w].pc = "findFirst"
    /\ StepOf(w, IF findFirstExists(events, workers[w].pid, workers[w].key)
                 THEN [workers[w] EXCEPT !.pc = "done", !.status = 409]
                 ELSE [workers[w] EXCEPT !.pc = "create"])

CommitCreateWith(w, row) ==
    CreateStepOf(w, RowAccepted(events, row),
                 IF RowAccepted(events, row) THEN events \cup {row} ELSE events,
                 [workers[w] EXCEPT
                    !.pc = "done",
                    !.result = IF RowAccepted(events, row) THEN "created" ELSE "throw",
                    !.status = IF RowAccepted(events, row) THEN 201 ELSE 500])

\* lines 190-223: the create, and the response
CommitCreate(w) ==
    /\ workers[w].op = "commit" /\ workers[w].pc = "create"
    /\ CommitCreateWith(w, CreateEventRow(CommitRequest(workers[w].pid, workers[w].key),
                                          nextEventId))

\* the (pattern, periodKey) pairs that generateVirtualEventsForRange
\* examines for one pattern, in order
PairsFor(pattern, periods) == [i \in 1..Len(periods) |-> <<pattern, periods[i]>>]

RECURSIVE QueryPairs(_, _)
QueryPairs(pats, range) ==
    IF pats = <<>> THEN <<>>
    ELSE (IF Head(pats).frequency = "every_n_days" THEN <<>>
          ELSE PairsFor(Head(pats),
                        getPeriodsInRange(range[1], range[2], Head(pats).frequency)))
         \o QueryPairs(Tail(pats), range)

\* a range query that materialises the period it examines
EventsAfterQueryMaterialised(evs, pattern, periodKey, id) ==
    evs \cup {CreateEventRow(EventRequest(Null, 0, pattern.id, periodKey), id)}

\* the events written by generateVirtualEventsForRange for one period: none
EventsAfterQuery(evs, pattern, periodKey, id) == evs

\* the loop moves on to the next pair, with or without a virtual event
QueryAdvance(record, pairs, emitted) ==
    [record EXCEPT
       !.ki = @ + 1,
       !.pc = IF record.ki + 1 > Len(pairs) THEN "done" ELSE "findFirst",
       !.acc = IF emitted
               THEN Append(@, createVirtualEvent(pairs[record.ki][1],
                                                 pairs[record.ki][2],
                                                 pairs[record.ki][1].frequency))
               ELSE @]

QueryStepOf(w, record, pair) ==
    /\ events' = EventsAfterQuery(events, pair[1], pair[2], nextEventId)
    /\ workers' = [workers EXCEPT ![w] = record]
    /\ UNCHANGED <<patterns, nextEventId, last, run, everExisted, probe>>

StartQueryWith(w, range, pairs) ==
    StepOf(w, [IdleWorker EXCEPT
                 !.op = "query", !.range = range, !.ki = 1,
                 !.pc = IF Len(pairs) = 0 THEN "done" ELSE "findFirst"])

\* generateVirtualEventsForRange lines 348-365: the findMany
StartQuery(w, range) ==
    /\ Free(w)
    /\ StartQueryWith(w, range, QueryPairs(ActivePatterns(patterns), range))

QueryFindFirstWith(w, pairs, pair) ==
    QueryStepOf(w,
                IF findFirstExists(events, pair[1].id, pair[2])
                THEN QueryAdvance(workers[w], pairs, FALSE)
                ELSE IF pair[1].frequency = "n_per_period"
                THEN [workers[w] EXCEPT !.pc = "count"]
                ELSE QueryAdvance(workers[w], pairs,
                                  VirtualEmitted(FALSE, 0, pair[1])),
                pair)

QueryFindFirstAt(w, pairs) == QueryFindFirstWith(w, pairs, pairs[workers[w].ki])

\* lines 371-379: the findFirst of one period
QueryFindFirst(w) ==
    /\ workers[w].op = "query" /\ workers[w].pc = "findFirst"
    /\ QueryFindFirstAt(w, QueryPairs(ActivePatterns(patterns), workers[w].range))

QueryCountWith(w, pairs, pair) ==
    QueryStepOf(w,
                QueryAdvance(workers[w], pairs,
                             VirtualEmitted(FALSE,
                                            CountEvents(events, pair[1].id, pair[2]),
                                            pair[1])),
                pair)

QueryCountAt(w, pairs) == QueryCountWith(w, pairs, pairs[workers[w].ki])

\* lines 381-392: the count of one n_per_period period
QueryCount(w) ==
    /\ workers[w].op = "query" /\ workers[w].pc = "count"
    /\ QueryCountAt(w, QueryPairs(ActivePatterns(patterns), workers[w].range))

ConcInit ==
    /\ patterns = ConcPatternTable
    /\ events = {}
    /\ nextEventId = 1
    /\ last = NoResponse
    /\ run = NoRun
    /\ everExisted = {}
    /\ workers = [w \in Workers |-> IdleWorker]
    /\ probe = NoProbe

ConcNext ==
    \E w \in Workers :
        \/ \E id \in PatternIds, k \in ConcKeys : StartGenerate(w, id, k)
        \/ GenerateCheck(w)
        \/ \E now \in NowDates : GenerateCreate(w, now)
        \/ \E id \in PatternIds, k \in ConcKeys : StartCommit(w, id, k)
        \/ CommitFindFirst(w)
        \/ CommitCreate(w)
        \/ \E r \in Ranges : StartQuery(w, r)
        \/ QueryFindFirst(w)
        \/ QueryCount(w)

SpecConc == ConcInit /\ [][ConcNext]_vars

(***************************************************************************)
(* Properties of the concurrent requests                                   *)
(***************************************************************************)
\* the most Events a pattern allows in one period
PeriodLimit(pattern) ==
    IF pattern.frequency = "n_per_period" THEN pattern.frequencyValue ELSE 1

\* C2: in every reachable state, interleavings of generate calls and commit
\* requests between their check and their create included, a
\* (patternId, periodKey) has at most 1 persisted Event for a pattern that
\* is not n_per_period and at most frequencyValue for an n_per_period one
C2_AtMostPerPeriod ==
    \A id \in PatternIds : \A k \in ConcKeys :
        CountEvents(events, id, k) <= PeriodLimit(patterns[id])

\* two generate calls for one pair of a pattern that is not n_per_period
\* have both passed the satisfaction check and both ended
BothPassedCheck(w1, w2) ==
    /\ w1 # w2
    /\ workers[w1].op = "generate" /\ workers[w2].op = "generate"
    /\ workers[w1].pc = "done" /\ workers[w2].pc = "done"
    /\ workers[w1].pid = workers[w2].pid /\ workers[w1].key = workers[w2].key
    /\ workers[w1].pid \in PatternIds
    /\ patterns[workers[w1].pid].frequency # "n_per_period"
    /\ workers[w1].result \in {"created", "throw"}
    /\ workers[w2].result \in {"created", "throw"}

\* C3: when two generate calls for the same pattern (not n_per_period) and
\* periodKey both pass the satisfaction check, the store rejects the second
\* create and that call ends with a Conflict: exactly one of the two ends
\* with an Event created, and the pair has one persisted Event
C3_SecondCreateRejected ==
    \A w1, w2 \in Workers :
        BothPassedCheck(w1, w2) =>
            /\ (workers[w1].result = "created") # (workers[w2].result = "created")
            /\ CountEvents(events, workers[w1].pid, workers[w1].key) = 1

\* the request of connection w, whatever was written meanwhile
Request(ws, w) == [ws[w] EXCEPT !.clean = TRUE]

\* C8: a step of generateVirtualEventsForRange, also one taken between the
\* steps of another range query or of a generate call, leaves the persisted
\* Events and the patterns as they were; and a range query during which
\* nothing was written returns the virtual events that the store state and
\* the range determine
C8_QueryWritesNothing ==
    [][\A w \in Workers :
          (workers'[w].op = "query" /\ Request(workers', w) # Request(workers, w))
          => /\ events' = events
             /\ patterns' = patterns
             /\ (workers'[w].pc = "done" /\ workers'[w].clean)
                  => workers'[w].acc =
                       generateVirtualEventsForRange(
                           patterns', events',
                           workers'[w].range[1], workers'[w].range[2])]_vars

\* a range query has ended with virtual events after a generate call or a
\* commit wrote an Event between its steps
C8_InterleavedQuery ==
    \E w \in Workers :
        /\ workers[w].op = "query" /\ workers[w].pc = "done"
        /\ workers[w].acc # <<>>
        /\ ~workers[w].clean
        /\ events # {}

(***************************************************************************)
(* Properties of the period keys                                           *)
(***************************************************************************)
\* the Thursday of the Monday-to-Sunday week that holds day d
ThursdayOf(d) == d - ((getDay(d) + 6) % 7) + 3

TwoDigits(n) == <<DigitChars[(n \div 10) + 1], DigitChars[(n % 10) + 1]>>

\* the ISO 8601 key of the week of d: the year of the week's Thursday and
\* the number of that Thursday among the Thursdays of its year
WeekKeyOf(d) ==
    toString(getFullYear(ThursdayOf(d))) \o <<"-", "W">>
        \o TwoDigits(((ThursdayOf(d) - MakeDay(getFullYear(ThursdayOf(d)), 0, 1))
                         \div 7) + 1)

MonthKeyOf(d) == toString(getFullYear(d)) \o <<"-">> \o TwoDigits(getMonth(d) + 1)

ExpectedKey(d, frequency) ==
    IF frequency \in {"weekly", "n_per_period"} THEN WeekKeyOf(d)
    ELSE IF frequency \in {"monthly", "nth_weekday_of_month"} THEN MonthKeyOf(d)
    ELSE toString(getFullYear(d))

AllDigits(s) == \A i \in 1..Len(s) : IsDigit(s[i])

\* "YYYY-Www"
IsWeekKey(k) ==
    /\ Len(k) = 8
    /\ AllDigits(SubSeq(k, 1, 4)) /\ SubSeq(k, 5, 6) = <<"-", "W">>
    /\ AllDigits(SubSeq(k, 7, 8))

\* "YYYY-MM"
IsMonthKey(k) ==
    /\ Len(k) = 7
    /\ AllDigits(SubSeq(k, 1, 4)) /\ k[5] = "-" /\ AllDigits(SubSeq(k, 6, 7))

\* "YYYY"
IsYearKey(k) == Len(k) = 4 /\ AllDigits(k)

MatchesFormat(k, frequency) ==
    IF frequency \in {"weekly", "n_per_period"} THEN IsWeekKey(k)
    ELSE IF frequency \in {"monthly", "nth_weekday_of_month"} THEN IsMonthKey(k)
    ELSE frequency = "yearly" /\ IsYearKey(k)

\* C12: getPeriodEndDate fails, and returns no instant, whenever the key
\* does not match the format of the frequency (not "YYYY-Www" for weekly or
\* n_per_period, not "YYYY-MM" for monthly or nth_weekday_of_month, not
\* "YYYY" for yearly)
C12_MalformedKeyFails ==
    (/\ probe.stage \in {"returned", "threw"}
     /\ probe.frequency \in PeriodFrequencies
     /\ ~MatchesFormat(probe.key, probe.frequency))
    => probe.stage = "threw"

\* on the probed keys that match the format of the frequency,
\* getPeriodEndDate returns a valid instant
WellFormedKeyReturns ==
    (/\ probe.stage \in {"returned", "threw"}
     /\ MatchesFormat(probe.key, probe.frequency))
    => probe.stage = "returned" /\ probe.end.valid

(***************************************************************************)
(* calculateNthWeekdayOfMonth on drawn arguments                           *)
(***************************************************************************)
\* years handed to calculateNthWeekdayOfMonth: referenceDate.getFullYear()
FirstProbeYear == 2024

ProbeYears == 3

NthYears == FirstProbeYear..(FirstProbeYear + ProbeYears - 1)

\* weekday 7 is no day of the week; occurrence 5 exists in some months only
NthProbes ==
    {[stage |-> "input", year |-> y, month |-> m, weekday |-> wd,
      occurrence |-> n, result |-> Null] :
        y \in NthYears, m \in 0..11, wd \in 0..7, n \in {-1, 1, 2, 3, 4, 5}}

NthWeekday ==
    /\ probe.stage = "input"
    /\ probe' = [probe EXCEPT
                   !.stage = "done",
                   !.result = Some(calculateNthWeekdayOfMonth(
                                       probe.year, probe.month,
                                       probe.weekday, probe.occurrence))]
    /\ UNCHANGED <<patterns, events, nextEventId, last, run, everExisted, workers>>

NthInit == StoreInit /\ workers = NoWorkers /\ probe \in NthProbes

NthNext == NthWeekday

SpecNth == NthInit /\ [][NthNext]_vars

\* the days of month m (0-indexed) of year y that fall on weekday wd
DaysOnWeekday(y, m, wd) ==
    {d \in MakeDay(y, m, 1)..MakeDay(y, m + 1, 0) : getDay(d) = wd}

\* day is the n-th smallest element of the set days
IsNthOf(day, days, n) ==
    day \in days /\ Cardinality({d \in days : d <= day}) = n

NthResultAsClaimed(p, r) ==
    /\ r.ok
    /\ IF p.occurrence = -1
       THEN /\ r.day \in DaysOnWeekday(p.year, p.month, p.weekday)
            /\ \A d \in DaysOnWeekday(p.year, p.month, p.weekday) : d <= r.day
            /\ r.day > MakeDay(p.year, p.month + 1, 0) - 7
       ELSE /\ IsNthOf(r.day, DaysOnWeekday(p.year, p.month, p.weekday), p.occurrence)
            /\ getDate(r.day) \in (7 * p.occurrence - 6)..(7 * p.occurrence)

YearlyProbeDays == {1, 28, 29, 30, 31}

\* POST /api/patterns bodies of inflexible yearly patterns
YearlyRequests ==
    {PatternRequest("yearly", 1, Null, Some([month |-> m, day |-> d]),
                    Some(FALSE), Some(MkDate(BaseDay, Noon))) :
        m \in 1..12, d \in YearlyProbeDays}

\* new Date() of the call: 15 June of a leap year and of the year after
StartReferenceDates == {MkDate(MakeDay(y, 5, 15), Noon) : y \in {2024, 2025}}

StartProbes ==
    {[stage |-> "input", pattern |-> CreatedPattern(r, 1), referenceDate |-> ref,
      result |-> Null] :
        r \in YearlyRequests, ref \in StartReferenceDates}

StartTime ==
    /\ probe.stage = "input"
    /\ probe' = [probe EXCEPT
                   !.stage = "done",
                   !.result = Some(calculateStartTime(probe.pattern,
                                                      probe.referenceDate))]
    /\ UNCHANGED <<patterns, events, nextEventId, last, run, everExisted, workers>>

StartInit == StoreInit /\ workers = NoWorkers /\ probe \in StartProbes

StartNext == StartTime

SpecStart == StartInit /\ [][StartNext]_vars

Min(a, b) == IF a < b THEN a ELSE b

\* 19:00 on the configured month and day of year y, the day clamped to the
\* length of that month in that year
ClampedYearlyStart(config, y) ==
    MkDate(MakeDay(y, config.month - 1,
                   Min(config.day,
                       MakeDay(y, config.month, 0) - MakeDay(y, config.month - 1, 0))),
           19 * MsPerHour)

\* C15: for an inflexible yearly pattern, calculateStartTime returns 19:00
\* on the configured month of referenceDate's year, on day min(day, days of
\* that month in that year): month 2 day 29 gives Feb 28 in 2025 and Feb 29
\* in 2024, and never a date of the following month
C15_YearlyStart ==
    probe.stage = "done" =>
        /\ probe.result[1].ok
        /\ probe.result[1].date =
             ClampedYearlyStart(probe.pattern.yearlyConfig[1],
                                getFullYear(probe.referenceDate.day))

IsLeapDayCase(p) ==
    /\ p.pattern.yearlyConfig[1].month = 2
    /\ p.pattern.yearlyConfig[1].day = 29
    /\ IsLeap(getFullYear(p.referenceDate.day))

\* the start is as claimed except for 29 February of a leap year, where it
\* is 28 February
YearlyStartExceptLeapDay ==
    probe.stage = "done" =>
        /\ probe.result[1].ok
        /\ probe.result[1].date =
             IF IsLeapDayCase(probe)
             THEN MkDate(MakeDay(getFullYear(probe.referenceDate.day), 1, 28),
                         19 * MsPerHour)
             ELSE ClampedYearlyStart(probe.pattern.yearlyConfig[1],
                                     getFullYear(probe.referenceDate.day))

(***************************************************************************)
(* Calls of the generation services on drawn pattern tables:               *)
(* generateInstanceForPeriod, generateInstanceForCurrentPeriod,            *)
(* generateInstancesForFrequency                                           *)
(***************************************************************************)
\* rows of the drawn RecurrencePattern tables
GenPatterns == 3

\* Events a run may create
MaxGenEvents == 3

InflexibleRequest(frequency, frequencyValue) ==
    PatternRequest(frequency, frequencyValue, Null, Null, Some(FALSE),
                   Some(MkDate(BaseDay, Noon)))

\* POST /api/patterns bodies: inflexible weekly, n_per_period and
\* every_n_days patterns, and a weekly pattern with flexibleScheduling
GenRequests ==
    {InflexibleRequest("weekly", 1),
     InflexibleRequest("n_per_period", 2),
     InflexibleRequest("every_n_days", 3),
     PatternRequest("weekly", 1, Null, Null, Some(TRUE), Null)}

\* the row of pattern id after DELETE /api/patterns/:id when deleted
PatternRowOf(req, id, deleted) ==
    [CreatedPattern(req, id) EXCEPT !.active = ~deleted]

GenSlots == [1..GenPatterns -> GenRequests \X BOOLEAN]

GenPatternTables ==
    {[i \in 1..GenPatterns |-> PatternRowOf(slots[i][1], i, slots[i][2])] :
        slots \in GenSlots}

\* period keys handed to generateInstanceForPeriod: the key of the current
\* week and a key of the yearly format
GenKeys == {getPeriodKey(BaseDay, "weekly").key, getPeriodKey(BaseDay, "yearly").key}

NoCall ==
    [op |-> "none", pid |-> 0, frequency |-> "", key |-> Null,
     result |-> "none", returned |-> <<>>]

\* the result of a service call is kept in probe; created rows are stored
ServiceReturn(evs, created, call) ==
    /\ nextEventId + created - 1 <= MaxGenEvents
    /\ StoreEvents(evs)
    /\ nextEventId' = nextEventId + created
    /\ probe' = call
    /\ UNCHANGED <<patterns, last, run, workers>>

ReturnedRows(g, row) == IF g.result = "created" THEN <<row>> ELSE <<>>

ForPeriodReturn(id, periodKey, g, row) ==
    ServiceReturn(g.events, Len(ReturnedRows(g, row)),
                  [NoCall EXCEPT !.op = "forPeriod", !.pid = id,
                                 !.frequency = patterns[id].frequency,
                                 !.key = periodKey, !.result = g.result,
                                 !.returned = ReturnedRows(g, row)])

\* generateInstanceForPeriod(pattern, periodKey, now)
GenerateForPeriodCall(id, periodKey, now) ==
    /\ id \in PatternIds
    /\ ForPeriodReturn(id, periodKey,
                       generateInstanceForPeriod(events, patterns[id], periodKey,
                                                 now, nextEventId),
                       GeneratedRow(patterns[id], periodKey, now, nextEventId).row)

CurrentRow(g, eid) ==
    ReturnedRows(g, IF g.result = "created"
                    THEN CHOOSE e \in g.events : e.id = eid ELSE Null)

CurrentReturn(id, g, now) ==
    ServiceReturn(g.events, Len(CurrentRow(g, nextEventId)),
                  [NoCall EXCEPT !.op = "current", !.pid = id,
                                 !.key = g.key, !.result = g.result,
                                 !.returned = CurrentRow(g, nextEventId)])

\* generateInstanceForCurrentPeriod(patternId), new Date() = now; the id may
\* be one that no pattern has
GenerateCurrentCall(id, now) ==
    CurrentReturn(id, generateInstanceForCurrentPeriod(patterns, events, id, now,
                                                      nextEventId),
                  now)

\* findMany({where: {active: true, frequency}})
ActiveOfFrequency(pats, frequency) ==
    SelectSeq(pats, LAMBDA p : p.active /\ p.frequency = frequency)

BatchAcc(evs, created) == [events |-> evs, created |-> created]

\* a loop without the try/catch: the first failure ends the batch
RECURSIVE BatchFromAborting(_, _, _, _, _)
BatchAfterAborting(rest, g, row, periodKey, now, acc, eid) ==
    IF g.result = "created"
    THEN BatchFromAborting(rest, periodKey, now,
                           BatchAcc(g.events, Append(acc.created, row)), eid + 1)
    ELSE IF g.result = "throw" THEN acc
    ELSE BatchFromAborting(rest, periodKey, now, acc, eid)

BatchFromAborting(list, periodKey, now, acc, eid) ==
    IF list = <<>> THEN acc
    ELSE BatchAfterAborting(
             Tail(list),
             generateInstanceForPeriod(acc.events, Head(list), periodKey, now, eid),
             GeneratedRow(Head(list), periodKey, now, eid).row,
             periodKey, now, acc, eid)

BatchRunAborting(list, periodKey, now, evs, eid) ==
    BatchFromAborting(list, periodKey, now, BatchAcc(evs, <<>>), eid)

\* lines 263-275: the loop over the patterns found; a pattern whose
\* generation throws is logged and skipped
RECURSIVE BatchFrom(_, _, _, _, _)
BatchAfter(rest, g, row, periodKey, now, acc, eid) ==
    IF g.result = "created"
    THEN BatchFrom(rest, periodKey, now,
                   BatchAcc(g.events, Append(acc.created, row)), eid + 1)
    ELSE BatchFrom(rest, periodKey, now, acc, eid)

BatchFrom(list, periodKey, now, acc, eid) ==
    IF list = <<>> THEN acc
    ELSE BatchAfter(
             Tail(list),
             generateInstanceForPeriod(acc.events, Head(list), periodKey, now, eid),
             GeneratedRow(Head(list), periodKey, now, eid).row,
             periodKey, now, acc, eid)

BatchRun(list, periodKey, now, evs, eid) ==
    BatchFrom(list, periodKey, now, BatchAcc(evs, <<>>), eid)

\* generateInstancesForFrequency(frequency, referenceDate):
\* [ok, key, events, created]; ok = FALSE when it throws
BatchOfKey(pats, evs, frequency, k, now, eid) ==
    IF ~k.ok THEN [ok |-> FALSE, key |-> Null, events |-> evs, created |-> <<>>]
    ELSE [ok |-> TRUE, key |-> k.key,
          events |-> BatchRun(ActiveOfFrequency(pats, frequency), k.key, now,
                              evs, eid).events,
          created |-> BatchRun(ActiveOfFrequency(pats, frequency), k.key, now,
                               evs, eid).created]

generateInstancesForFrequency(pats, evs, frequency, referenceDate, eid) ==
    IF frequency = "every_n_days"
    THEN [ok |-> FALSE, key |-> Null, events |-> evs, created |-> <<>>]
    ELSE BatchOfKey(pats, evs, frequency,
                    getPeriodKey(referenceDate.day, frequency), referenceDate, eid)

BatchReturn(frequency, b) ==
    ServiceReturn(b.events, Len(b.created),
                  [NoCall EXCEPT !.op = "batch", !.frequency = frequency,
                                 !.key = b.key,
                                 !.result = IF b.ok THEN "ok" ELSE "throw",
                                 !.returned = b.created])

GenerateBatchCall(frequency, now) ==
    BatchReturn(frequency,
                generateInstancesForFrequency(patterns, events, frequency, now,
                                              nextEventId))

KeyReturn(frequency, k) ==
    ServiceReturn(events, 0,
                  [NoCall EXCEPT !.op = "periodKey", !.frequency = frequency,
                                 !.key = k.key,
                                 !.result = IF k.ok THEN "ok" ELSE "throw"])

\* getPeriodKey(date, frequency)
PeriodKeyCall(d, frequency) == KeyReturn(frequency, getPeriodKey(d, frequency))

\* dates handed to getPeriodKey: Friday 2025-10-10 and the Monday after
GenKeyDays == {BaseDay, BaseDay + 3}

GenInit ==
    /\ patterns \in GenPatternTables
    /\ events = {}
    /\ nextEventId = 1
    /\ last = NoResponse
    /\ run = NoRun
    /\ everExisted = {}
    /\ workers = NoWorkers
    /\ probe = NoCall

GenNext ==
    \/ \E id \in 1..GenPatterns, k \in GenKeys, now \in NowDates :
           GenerateForPeriodCall(id, k, now)
    \/ \E id \in 1..(GenPatterns + 1), now \in NowDates : GenerateCurrentCall(id, now)
    \/ \E f \in {"weekly", "n_per_period", "every_n_days", "monthly"},
          now \in NowDates : GenerateBatchCall(f, now)
    \/ \E d \in GenKeyDays, f \in {"weekly", "every_n_days"} : PeriodKeyCall(d, f)

SpecGen == GenInit /\ [][GenNext]_vars

(***************************************************************************)
(* Properties of the generation services                                   *)
(***************************************************************************)
\* row is the Event that generation for (pattern, periodKey) is to persist
IsGeneratedEvent(row, pattern, periodKey) ==
    /\ row.patternId = pattern.id
    /\ row.periodKey = periodKey
    /\ row.title = pattern.title
    /\ row.durationMinutes = pattern.durationMinutes
    /\ row.deadline = Some(getPeriodEndDate(periodKey, pattern.frequency).date)
    /\ row.isTimeBound
    /\ row.category = "recurring"
    /\ (row.startTime = Null) <=> pattern.flexibleScheduling

\* a call of generateInstanceForPeriod went past the satisfaction check
\* with a key of the pattern's format, and so on to its create
ReachedCreate(call) ==
    /\ call.op = "forPeriod"
    /\ GenerationNeeded(events, patterns[call.pid], call.key)
    /\ MatchesFormat(call.key, patterns[call.pid].frequency)

PersistedOneGenerated(call, pattern) ==
    /\ call.result = "created"
    /\ Cardinality(events' \ events) = 1
    /\ events \subseteq events'
    /\ \A row \in events' \ events : IsGeneratedEvent(row, pattern, call.key)

\* C16: whenever generateInstanceForPeriod goes on to create an Event, it
\* persists exactly one Event with the given patternId and periodKey, the
\* pattern's title and durationMinutes, deadline = the period end of the
\* key, isTimeBound true, category "recurring", and startTime null if and
\* only if the pattern has flexibleScheduling
C16_GeneratedEvent ==
    [][(probe' # probe /\ ReachedCreate(probe'))
       => PersistedOneGenerated(probe', patterns[probe'.pid])]_vars

\* the same for the patterns without flexibleScheduling
GeneratedEventOfInflexible ==
    [][(/\ probe' # probe
        /\ ReachedCreate(probe')
        /\ ~patterns[probe'.pid].flexibleScheduling)
       => PersistedOneGenerated(probe', patterns[probe'.pid])]_vars

\* the active patterns of a frequency, as a set
ActiveSetOf(frequency) ==
    {patterns[i] : i \in {j \in PatternIds : patterns[j].active
                                              /\ patterns[j].frequency = frequency}}

\* C17: generateInstancesForFrequency continues past individual failures:
\* the batch completes without error although generation fails for a
\* pattern (one with flexibleScheduling, whose create is rejected); every
\* other active pattern of the frequency that was unsatisfied for the shared
\* key gets exactly one new Event, wherever it stands relative to the
\* failing one; and the returned list holds exactly the Events this call
\* created
C17_BatchContinues ==
    [][(/\ probe' # probe
        /\ probe'.op = "batch"
        /\ probe'.frequency # "every_n_days")
       => /\ probe'.result = "ok"
          /\ \A p \in ActiveSetOf(probe'.frequency) :
                CountEvents(events', p.id, probe'.key) =
                    CountEvents(events, p.id, probe'.key)
                    + (IF GenerationNeeded(events, p, probe'.key)
                          /\ ~p.flexibleScheduling
                       THEN 1 ELSE 0)
          /\ events \subseteq events'
          /\ {probe'.returned[i] : i \in 1..Len(probe'.returned)} = events' \ events
          /\ Len(probe'.returned) = Cardinality(events' \ events)]_vars

\* a weekly batch has passed a failing first pattern and created the Event
\* of the second
C17_CreatedAfterFailure ==
    /\ probe.op = "batch" /\ probe.frequency = "weekly" /\ probe.result = "ok"
    /\ patterns[1].active /\ patterns[1].frequency = "weekly"
    /\ patterns[1].flexibleScheduling
    /\ patterns[2].active /\ patterns[2].frequency = "weekly"
    /\ ~patterns[2].flexibleScheduling
    /\ Len(probe.returned) >= 1
    /\ probe.returned[1].patternId = 2
    /\ probe.returned[1] \in events
    /\ CountEvents(events, 1, probe.key) = 0

\* C18: generateInstanceForCurrentPeriod returns null and persists no Event
\* whenever no pattern has the id or the pattern is inactive, whatever its
\* frequency and whether or not its period is satisfied
C18_MissingOrInactive ==
    [][(/\ probe'.op = "current"
        /\ (probe'.pid \notin PatternIds \/ ~patterns[probe'.pid].active))
       => /\ probe'.result = "null"
          /\ probe'.returned = <<>>
          /\ events' = events]_vars

\* the call has returned null for an inactive every_n_days pattern
C18_InactiveEveryNDays ==
    /\ probe.op = "current"
    /\ probe.pid \in PatternIds
    /\ ~patterns[probe.pid].active
    /\ patterns[probe.pid].frequency = "every_n_days"
    /\ probe.result = "null"

\* C19: every_n_days is rejected wherever a period key is needed:
\* getPeriodKey(d, every_n_days) throws for every date,
\* generateInstanceForCurrentPeriod on an active every_n_days pattern
\* throws, generateInstancesForFrequency(every_n_days) throws, and none of
\* these calls persists an Event
C19_EveryNDaysRejected ==
    [][(\/ probe'.op \in {"periodKey", "batch"} /\ probe'.frequency = "every_n_days"
        \/ /\ probe'.op = "current"
           /\ probe'.pid \in PatternIds
           /\ patterns[probe'.pid].active
           /\ patterns[probe'.pid].frequency = "every_n_days")
       => /\ probe'.result = "throw"
          /\ probe'.returned = <<>>
          /\ events' = events]_vars

\* the batch of every_n_days has thrown although the table holds an active
\* every_n_days pattern and persisted Events
C19_BatchThrown ==
    /\ probe.op = "batch" /\ probe.frequency = "every_n_days"
    /\ probe.result = "throw"
    /\ \E i \in PatternIds : patterns[i].active /\ patterns[i].frequency = "every_n_days"
    /\ events # {}

(***************************************************************************)
(* getNextEveryNDaysDate on stores filled by POST /api/events              *)
(***************************************************************************)
\* date-fns addDays
addDays(date, amount) == [date EXCEPT !.day = @ + amount]

\* the Events that findFirst of lines 294-305 selects from
CompletedBy(evs, patternId, now) ==
    {e \in evs : /\ e.patternId = patternId
                 /\ e.startTime # Null
                 /\ DateLE(e.startTime[1], now)}

\* orderBy startTime desc, first row
LatestOf(rows) ==
    CHOOSE e \in rows : \A other \in rows : DateLE(other.startTime[1], e.startTime[1])

NextAfter(rows, pattern, now) ==
    IF rows = {} THEN [kind |-> "date", date |-> now]
    ELSE [kind |-> "date",
          date |-> addDays(LatestOf(rows).startTime[1], pattern.frequencyValue)]

\* a search without the startTime <= now filter
getNextEveryNDaysDateOfAnyTime(pats, evs, patternId, now) ==
    IF ~(patternId \in 1..Len(pats)) \/ pats[patternId].frequency # "every_n_days"
    THEN [kind |-> "null", date |-> InvalidDate]
    ELSE NextAfter({e \in evs : e.patternId = patternId /\ e.startTime # Null},
                   pats[patternId], now)

\* getNextEveryNDaysDate(patternId) with new Date() = now
getNextEveryNDaysDate(pats, evs, patternId, now) ==
    IF ~(patternId \in 1..Len(pats)) \/ pats[patternId].frequency # "every_n_days"
    THEN [kind |-> "null", date |-> InvalidDate]
    ELSE NextAfter(CompletedBy(evs, patternId, now), pats[patternId], now)

\* the server's clock at the calls: 2025-10-10 12:00
NextNow == MkDate(BaseDay, Noon)

\* startTime of the committed Events: five days and one day before now,
\* now itself, later the same day, and two days after
CommitStarts ==
    {MkDate(BaseDay - 5, Noon), MkDate(BaseDay - 1, EndOfDayMs), NextNow,
     MkDate(BaseDay, EndOfDayMs), MkDate(BaseDay + 2, 0)}

\* two every_n_days patterns (every 3 days, every day) and a weekly one
NextPatternTable ==
    <<CreatedPattern(InflexibleRequest("every_n_days", 3), 1),
      CreatedPattern(InflexibleRequest("every_n_days", 1), 2),
      CreatedPattern(InflexibleRequest("weekly", 1), 3)>>

NoNext ==
    [op |-> "none", pid |-> 0, status |-> 0, kind |-> "none", date |-> InvalidDate]

CommitReturn(pid, early, row) ==
    ServiceReturn(IF early = 0 /\ RowAccepted(events, row)
                  THEN events \cup {row} ELSE events,
                  IF early = 0 /\ RowAccepted(events, row) THEN 1 ELSE 0,
                  [NoNext EXCEPT !.op = "commit", !.pid = pid,
                                 !.status = IF early # 0 THEN early
                                            ELSE IF RowAccepted(events, row)
                                            THEN 201 ELSE 500])

CommitOf(req) ==
    CommitReturn(req.patternId, CreateEventChecks(patterns, events, req),
                 CreateEventRow(req, nextEventId))

\* POST /api/events {patternId, startTime} without a periodKey
CommitAt(pid, start) == CommitOf(EventRequest(Some(start), 0, pid, Null))

NextReturn(pid, r) ==
    ServiceReturn(events, 0,
                  [NoNext EXCEPT !.op = "next", !.pid = pid,
                                 !.kind = r.kind, !.date = r.date])

NextDateCall(pid) ==
    NextReturn(pid, getNextEveryNDaysDate(patterns, events, pid, NextNow))

NextDateInit ==
    /\ patterns = NextPatternTable
    /\ events = {}
    /\ nextEventId = 1
    /\ last = NoResponse
    /\ run = NoRun
    /\ everExisted = {}
    /\ workers = NoWorkers
    /\ probe = NoNext

NextDateNext ==
    \/ \E pid \in 1..Len(NextPatternTable), start \in CommitStarts :
           CommitAt(pid, start)
    \/ \E pid \in 1..(Len(NextPatternTable) + 1) : NextDateCall(pid)

SpecNextDate == NextDateInit /\ [][NextDateNext]_vars

\* the Events of pattern pid that started at or before NextNow
StartedByNow(pid) ==
    {e \in events : /\ e.patternId = pid
                    /\ e.startTime # Null
                    /\ ~DateLT(NextNow, e.startTime[1])}

\* C20: for an every_n_days pattern the next suggested date is the
\* startTime of the pattern's Event with the greatest startTime not later
\* than now, plus frequencyValue days; later Events, Events without
\* startTime and Events of other patterns do not count; without such an
\* Event it is now
C20_NextSuggestedDate ==
    [][(/\ probe'.op = "next"
        /\ probe'.pid \in PatternIds
        /\ patterns[probe'.pid].frequency = "every_n_days")
       => /\ events' = events
          /\ probe'.kind = "date"
          /\ IF StartedByNow(probe'.pid) = {}
             THEN probe'.date = NextNow
             ELSE \E e \in StartedByNow(probe'.pid) :
                     /\ \A o \in StartedByNow(probe'.pid) :
                            ~DateLT(e.startTime[1], o.startTime[1])
                     /\ probe'.date =
                          MkDate(e.startTime[1].day
                                    + patterns[probe'.pid].frequencyValue,
                                 e.startTime[1].ms)]_vars

\* the date has been computed from the Event of five days ago while the
\* pattern has a later Event after now and another pattern has one at now
C20_PastEventChosen ==
    /\ probe.op = "next" /\ probe.pid = 1
    /\ probe.date = MkDate(BaseDay - 5 + 3, Noon)
    /\ \E e \in events : e.patternId = 1 /\ e.startTime[1] = MkDate(BaseDay + 2, 0)
    /\ \E e \in events : e.patternId = 2 /\ e.startTime[1] = NextNow


\* ---------------------------------------------------------------------
\* Virtual event identity
\* ---------------------------------------------------------------------

\* "virtual-{patternId}-{periodKey}"
VirtualIdOf(patternId, periodKey) ==
    <<"v", "i", "r", "t", "u", "a", "l", "-">> \o toString(patternId)
        \o <<"-">> \o periodKey

\* C21: every VirtualEvent of a virtualEventsInRange result has the id
\* "virtual-{patternId}-{periodKey}" made of its own patternId and periodKey
\* alone, the end of its period as deadline and the flexibleScheduling of its
\* pattern as isFlexible, and no two VirtualEvents of one result share an id;
\* the id of a pair is therefore the same in every call, whatever the range
\* and the store.
C21_VirtualIdentity ==
    last.op = "getEvents"
    => /\ \A i \in 1..Len(last.virtual) :
            /\ last.virtual[i].patternId \in PatternIds
            /\ last.virtual[i].id = VirtualIdOf(last.virtual[i].patternId,
                                                last.virtual[i].periodKey)
            /\ last.virtual[i].deadline =
                  getPeriodEndDate(
                      last.virtual[i].periodKey,
                      patterns[last.virtual[i].patternId].frequency).date
            /\ last.virtual[i].isFlexible =
                  patterns[last.virtual[i].patternId].flexibleScheduling
       /\ \A i, j \in 1..Len(last.virtual) :
            last.virtual[i].id = last.virtual[j].id => i = j

\* a result listing several periods of a flexible and of an inflexible pattern
C21_FlexibleAndInflexibleListed ==
    /\ last.op = "getEvents"
    /\ \E i, j \in 1..Len(last.virtual) :
          /\ last.virtual[i].isFlexible
          /\ ~last.virtual[j].isFlexible
    /\ \E i, j \in 1..Len(last.virtual) :
          /\ i # j
          /\ last.virtual[i].patternId = last.virtual[j].patternId

(***************************************************************************)
(* The pattern routes: POST, PATCH, DELETE /api/patterns and               *)
(* POST /api/patterns/:id/generate-instance                                *)
(***************************************************************************)
PatchBody(frequency, yearly, flexible, startTime) ==
    [PatternRequest(frequency, 1, Null, yearly, flexible, startTime)
        EXCEPT !.title = " walk "]

\* bodies of POST /api/patterns: flexibleScheduling omitted, true or false,
\* with and without a startTime
PatchBodies ==
    {PatchBody("weekly", Null, Null, Null),
     PatchBody("weekly", Null, Null, Some(MkDate(BaseDay, Noon))),
     PatchBody("weekly", Null, Some(TRUE), Some(MkDate(BaseDay, Noon))),
     PatchBody("weekly", Null, Some(FALSE), Null),
     PatchBody("yearly", Some([month |-> 10, day |-> 10]), Some(FALSE),
               Some(MkDate(BaseDay, Noon)))}

PatternPatch(title, durationMinutes, active, frequency, flexible, startTime) ==
    [title |-> title, durationMinutes |-> durationMinutes, active |-> active,
     frequency |-> frequency, flexibleScheduling |-> flexible,
     startTime |-> startTime]

\* bodies of PATCH /api/patterns/:id, some with fields that
\* UpdatePatternRequest does not have
PatternPatches ==
    {PatternPatch(Some("chore"), Null, Null, Null, Null, Null),
     PatternPatch(Null, Some(45), Some(FALSE), Null, Null, Null),
     PatternPatch(Null, Null, Some(TRUE), Some("monthly"), Some(TRUE), Some(Null)),
     PatternPatch(Null, Null, Null, Null, Some(FALSE),
                  Some(Some(MkDate(BaseDay + 1, Noon)))),
     PatternPatch(Some(" "), Some(45), Some(FALSE), Null, Null, Null),
     PatternPatch(Some("chore"), Some(0), Some(FALSE), Null, Null, Null)}

PostPatternReturn(req, resp) ==
    /\ resp.status = 201 => Len(patterns) < MaxPatterns
    /\ patterns' = IF resp.status = 201
                   THEN Append(patterns, resp.row[1]) ELSE patterns
    /\ last' = [NoResponse EXCEPT !.op = "createPattern", !.status = resp.status]
    /\ probe' = req
    /\ UNCHANGED <<events, nextEventId, run, everExisted, workers>>

\* POST /api/patterns, the body kept beside the response
PostPattern(req) ==
    PostPatternReturn(req, CreatePatternResponse(req, Len(patterns) + 1))

PatchNext ==
    \/ \E req \in PatchBodies : PostPattern(req)
    \/ \E id \in 1..MaxPatterns + 1, u \in PatternPatches : UpdatePattern(id, u)
    \/ \E id \in 1..MaxPatterns + 1 : DeletePattern(id)
    \/ \E id \in 1..MaxPatterns, now \in NowDates : GenerateInstance(id, Null, now)

SpecPatch == SeqInit /\ [][PatchNext]_vars

\* the fields of a pattern that no request writes after creation
FixedFields(pattern) ==
    [id                 |-> pattern.id,
     frequency          |-> pattern.frequency,
     frequencyValue     |-> pattern.frequencyValue,
     nthWeekdayConfig   |-> pattern.nthWeekdayConfig,
     yearlyConfig       |-> pattern.yearlyConfig,
     yearlyNthWeekday   |-> pattern.yearlyNthWeekday,
     flexibleScheduling |-> pattern.flexibleScheduling,
     startTime          |-> pattern.startTime]

\* C22: after creation no PATCH, soft DELETE or generation changes a
\* pattern's frequency, frequencyValue, config, flexibleScheduling or
\* startTime, so an update changes at most title, durationMinutes and active;
\* an update that is rejected (empty title, duration not positive, unknown
\* id) changes nothing at all.
C22_FixedAfterCreation ==
    [][/\ Len(patterns') >= Len(patterns)
       /\ \A id \in PatternIds :
             FixedFields(patterns'[id]) = FixedFields(patterns[id])
       /\ (last'.op = "updatePattern" /\ last'.status # 200)
             => (patterns' = patterns /\ events' = events)]_vars

\* a rejected update of a yearly pattern that was renamed, given another
\* duration, soft-deleted and has a generated Event
C22_RejectedAfterChanges ==
    /\ last.op = "updatePattern"
    /\ last.status = 400
    /\ \E id \in PatternIds :
          /\ patterns[id].frequency = "yearly"
          /\ patterns[id].title = "chore"
          /\ patterns[id].durationMinutes = 45
          /\ ~patterns[id].active
          /\ \E e \in events : e.patternId = id

(***************************************************************************)
(* POST /api/patterns on bodies with and without the configuration objects *)
(***************************************************************************)
NthOccurrences == {-2, -1, 0, 1, 2, 3, 4, 5}

NthWeekdays == {-1, 0, 3, 6, 7}

NthBodies ==
    {PatternRequest("nth_weekday_of_month", 1,
                    Some([weekday |-> w, occurrence |-> o]), Null, Null, Null) :
        w \in NthWeekdays, o \in NthOccurrences}

OctoberTenth == [month |-> 10, day |-> 10]

FirstMonday == [weekday |-> 1, occurrence |-> 1]

\* bodies whose configuration objects do and do not belong to the frequency
ConfigBodies ==
    {PatternRequest("nth_weekday_of_month", 1, Null, Null, Null, Null),
     PatternRequest("nth_weekday_of_month", 1, Null, Some(OctoberTenth), Null, Null),
     PatternRequest("yearly", 1, Null, Some(OctoberTenth), Null, Null),
     PatternRequest("yearly", 1, Null, Null, Null, Null),
     PatternRequest("yearly", 1, Some(FirstMonday), Null, Null, Null),
     PatternRequest("yearly", 1, Null, Some([month |-> 13, day |-> 10]), Null, Null),
     PatternRequest("weekly", 1, Null, Null, Null, Null),
     PatternRequest("weekly", 1, Null, Some(OctoberTenth), Null, Null),
     PatternRequest("monthly", 1, Some(FirstMonday), Null, Null, Null),
     [PatternRequest("every_n_days", 3, Null, Null, Null, Null)
        EXCEPT !.yearlyNthWeekday =
                  Some([month |-> 10, weekday |-> 1, occurrence |-> 1])]}

CreateBodies == NthBodies \cup ConfigBodies

CreateNext == \E req \in CreateBodies : PostPattern(req)

SpecCreate == SeqInit /\ [][CreateNext]_vars

\* C23: every persisted pattern has a frequency-specific configuration
\* exactly when its frequency requires one: a yearly pattern has a
\* yearlyConfig, an nth_weekday_of_month pattern has an nthWeekdayConfig, and
\* a pattern of any other frequency has no yearlyConfig, nthWeekdayConfig or
\* yearlyNthWeekday.
C23_ConfigMatchesFrequency ==
    \A id \in PatternIds :
        /\ patterns[id].frequency = "yearly" => patterns[id].yearlyConfig # Null
        /\ patterns[id].frequency = "nth_weekday_of_month"
              => patterns[id].nthWeekdayConfig # Null
        /\ patterns[id].frequency \notin {"yearly", "nth_weekday_of_month"}
              => /\ patterns[id].yearlyConfig = Null
                 /\ patterns[id].nthWeekdayConfig = Null
                 /\ patterns[id].yearlyNthWeekday = Null

\* the half that the validation enforces: a required configuration is there
RequiredConfigPresent ==
    \A id \in PatternIds :
        /\ patterns[id].frequency = "yearly" => patterns[id].yearlyConfig # Null
        /\ patterns[id].frequency = "nth_weekday_of_month"
              => patterns[id].nthWeekdayConfig # Null

IsNthBody(req) ==
    req.frequency = "nth_weekday_of_month" /\ req.nthWeekdayConfig # Null

Created201 ==
    /\ last'.status = 201
    /\ Len(patterns') = Len(patterns) + 1

Rejected4xx ==
    /\ last'.status \in 400..499
    /\ patterns' = patterns

\* C24: creating an nth_weekday_of_month pattern is accepted for the
\* occurrences 1, 2, 3, 4 and -1 with a weekday in 0..6, and answered with a
\* 4xx that persists nothing for every other occurrence or weekday.
C24_NthConfigAccepted ==
    [][(IsNthBody(probe') /\ Len(patterns) < MaxPatterns)
          => IF /\ probe'.nthWeekdayConfig[1].occurrence \in {1, 2, 3, 4, -1}
                /\ probe'.nthWeekdayConfig[1].weekday \in 0..6
             THEN Created201
             ELSE Rejected4xx]_vars

\* what the validation accepts: the occurrences 1..4 alone
NthConfigAcceptedUpToFour ==
    [][(IsNthBody(probe') /\ Len(patterns) < MaxPatterns)
          => IF /\ probe'.nthWeekdayConfig[1].occurrence \in {1, 2, 3, 4}
                /\ probe'.nthWeekdayConfig[1].weekday \in 0..6
             THEN Created201
             ELSE Rejected4xx]_vars

(***************************************************************************)
(* POST, PATCH, DELETE /api/events on events with a parentEventId          *)
(***************************************************************************)
\* bodies of POST /api/events: no parent, or the id of a parent
NestRequests ==
    {EventRequest(Some(MkDate(BaseDay, Noon)), parent, 0, Null) :
        parent \in 0..MaxEvents}

\* bodies of PATCH /api/events/:id: parentEventId null or an id, another
\* startTime, and startTime null
NestUpdates ==
    {[startTime |-> Null, parentEventId |-> Some(parent)] : parent \in 0..MaxEvents}
    \cup {[startTime |-> Some(Some(MkDate(BaseDay + 1, Noon))),
           parentEventId |-> Null],
          [startTime |-> Some(Null), parentEventId |-> Some(0)]}

NestNext ==
    \/ \E req \in NestRequests : CreateEvent(req)
    \/ \E id \in 1..MaxEvents, u \in NestUpdates : UpdateEvent(id, u)
    \/ \E id \in 1..MaxEvents : DeleteEvent(id)

SpecNest == SeqInit /\ [][NestNext]_vars

\* C25: nesting is at most one level deep after any sequence of event create
\* and update requests: no Event that has a parentEventId is the parent of
\* another Event, and no Event is its own parent.
C25_OneLevelOfNesting ==
    \A e \in events :
        /\ e.parentEventId # e.id
        /\ e.parentEventId # 0 => ~\E c \in events : c.parentEventId = e.id

\* what the store enforces: a parentEventId names a persisted Event
ParentPersisted ==
    \A e \in events : e.parentEventId # 0 => e.parentEventId \in EventIds

(***************************************************************************)
(* Commits: POST /api/events with patternId and periodKey                  *)
(***************************************************************************)
CommitBody(startTime, patternId, periodKey) ==
    EventRequest(startTime, 0, patternId, periodKey)

\* commits of a virtual event at 2025-10-10 12:00, for patterns that exist
\* and one that does not, and bodies that fail the basic validation
CommitBodies ==
    {CommitBody(Some(MkDate(BaseDay, Noon)), pid, key) :
        pid \in 1..MaxPatterns + 1, key \in KeyInputs}
    \cup {CommitBody(Null, 1, key) : key \in KeyInputs}
    \cup {[CommitBody(Some(MkDate(BaseDay, Noon)), 1, key)
             EXCEPT !.durationMinutes = 0] : key \in KeyInputs}

PostEventReturn(req, status, row) ==
    /\ status = 201 => nextEventId <= MaxEvents
    /\ StoreEvents(IF status = 201 THEN events \cup {row} ELSE events)
    /\ nextEventId' = IF status = 201 THEN nextEventId + 1 ELSE nextEventId
    /\ last' = [NoResponse EXCEPT !.op = "createEvent", !.pid = req.patternId,
                                  !.key = req.periodKey, !.status = status]
    /\ probe' = req
    /\ UNCHANGED <<patterns, run, workers>>

PostEventStatus(early, accepted) ==
    IF early # 0 THEN early ELSE IF accepted THEN 201 ELSE 500

\* POST /api/events, the body kept beside the response
PostEvent(req) ==
    PostEventReturn(
        req,
        PostEventStatus(CreateEventChecks(patterns, events, req),
                        RowAccepted(events, CreateEventRow(req, nextEventId))),
        CreateEventRow(req, nextEventId))

CommitNext ==
    \/ \E req \in PatternRequests : CreatePattern(req)
    \/ \E id \in 1..MaxPatterns : DeletePattern(id)
    \/ \E req \in CommitBodies : PostEvent(req)
    \/ \E id \in 1..MaxEvents : DeleteEvent(id)

SpecCommit == SeqInit /\ [][CommitNext]_vars

\* the step is a commit whose body passes the basic validation
IsCommitStep ==
    /\ last'.op = "createEvent"
    /\ probe'.title # ""
    /\ probe'.startTime # Null
    /\ probe'.durationMinutes > 0
    /\ probe'.patternId # 0
    /\ probe'.periodKey # Null

CommitPatternUsable ==
    probe'.patternId \in PatternIds /\ patterns[probe'.patternId].active

CommitPairTaken == findFirstExists(events, probe'.patternId, probe'.periodKey)

CommitCreatedOne ==
    \E e \in events' :
        /\ e \notin events
        /\ events' = events \cup {e}
        /\ e.patternId = probe'.patternId
        /\ e.periodKey = probe'.periodKey

KindRow(frequency, frequencyValue, nth, yearly) ==
    [CreatedPattern(InflexibleRequest("weekly", 1), 1)
        EXCEPT !.frequency = frequency, !.frequencyValue = frequencyValue,
               !.nthWeekdayConfig = nth, !.yearlyConfig = yearly]

NthConfig(weekday, occurrence) ==
    Some([weekday |-> weekday, occurrence |-> occurrence])

\* the first pattern of the table: one of each frequency; yearly on 29
\* February and 31 December; nth_weekday_of_month for the first Monday, the
\* last Friday and a fifth Saturday; yearly and nth_weekday_of_month without
\* their configuration; a frequency that does not exist; a weekly pattern
\* with flexibleScheduling
KindRows ==
    {KindRow("weekly", 1, Null, Null),
     KindRow("monthly", 1, Null, Null),
     KindRow("n_per_period", 2, Null, Null),
     KindRow("every_n_days", 3, Null, Null),
     KindRow("yearly", 1, Null, Some([month |-> 2, day |-> 29])),
     KindRow("yearly", 1, Null, Some([month |-> 12, day |-> 31])),
     KindRow("yearly", 1, Null, Null),
     KindRow("nth_weekday_of_month", 1, NthConfig(1, 1), Null),
     KindRow("nth_weekday_of_month", 1, NthConfig(5, -1), Null),
     KindRow("nth_weekday_of_month", 1, NthConfig(6, 5), Null),
     KindRow("nth_weekday_of_month", 1, Null, Null),
     KindRow("daily", 1, Null, Null),
     CreatedPattern(PatternRequest("weekly", 1, Null, Null, Some(TRUE), Null), 1)}

\* the second pattern is an inflexible weekly one
KindTables ==
    {<<row, [KindRow("weekly", 1, Null, Null) EXCEPT !.id = 2]>> : row \in KindRows}

\* new Date(): Friday 2025-10-10 12:00, and Monday 2024-12-30 12:00, a day
\* of a leap year in ISO week 2025-W01
KindNows == {MkDate(BaseDay, Noon), MkDate(MakeDay(2024, 11, 30), Noon)}

\* period keys handed to generateInstanceForPeriod
KindKeys == {getPeriodKey(BaseDay, "weekly").key, getPeriodKey(BaseDay, "monthly").key}

KindFrequencies == Frequencies \cup {"daily"}

KindInit ==
    /\ patterns \in KindTables
    /\ events = {}
    /\ nextEventId = 1
    /\ last = NoResponse
    /\ run = NoRun
    /\ everExisted = {}
    /\ workers = NoWorkers
    /\ probe = NoCall

KindNext ==
    \/ \E id \in 1..MaxPatterns, k \in KindKeys :
          GenerateForPeriodCall(id, k, MkDate(BaseDay, Noon))
    \/ \E id \in 1..MaxPatterns, now \in KindNows : GenerateCurrentCall(id, now)
    \/ \E f \in KindFrequencies, now \in KindNows : GenerateBatchCall(f, now)

SpecKinds == KindInit /\ [][KindNext]_vars

\* C27: whenever generateForPeriod fails (an inflexible yearly pattern
\* without yearlyConfig or nth_weekday_of_month pattern without
\* nthWeekdayConfig, an occurrence the month does not have, an unknown
\* frequency, a period end that cannot be computed), the persisted Events
\* are exactly those before the call.
C27_FailureWritesNothing ==
    [][(probe'.op = "forPeriod" /\ probe'.result = "throw")
          => events' = events]_vars

\* a failed call for a yearly pattern without yearlyConfig on a store that
\* holds an Event
C27_FailedWithEvents ==
    /\ probe.op = "forPeriod"
    /\ probe.result = "throw"
    /\ probe.frequency = "yearly"
    /\ patterns[probe.pid].yearlyConfig = Null
    /\ events # {}

\* the created Event e of an inflexible pattern starts at 19:00 on a day of
\* the period that its periodKey names, not after its deadline
StartsInsidePeriod(e, pattern) ==
    /\ e.startTime # Null
    /\ e.startTime[1].valid
    /\ e.startTime[1].ms = 19 * MsPerHour
    /\ ExpectedKey(e.startTime[1].day, pattern.frequency) = e.periodKey
    /\ e.deadline # Null
    /\ DateLE(e.startTime[1], e.deadline[1])
    /\ pattern.frequency = "nth_weekday_of_month"
          => getDay(e.startTime[1].day) = pattern.nthWeekdayConfig[1].weekday
    /\ pattern.frequency = "yearly"
          => getMonth(e.startTime[1].day) + 1 = pattern.yearlyConfig[1].month

\* C28: for an inflexible pattern, every Event created by
\* generateForCurrentPeriod or generateForFrequencyBatch has its startTime at
\* 19:00 on a calendar day inside the period named by the Event's periodKey
\* (the configured month for yearly, the configured weekday for
\* nth_weekday_of_month), so startTime <= deadline.
C28_StartInsidePeriod ==
    probe.op \in {"current", "batch"}
    => \A i \in 1..Len(probe.returned) :
          ~patterns[probe.returned[i].patternId].flexibleScheduling
          => StartsInsidePeriod(probe.returned[i],
                                patterns[probe.returned[i].patternId])

\* a batch on Monday 2024-12-30 that created the Events of two weekly
\* patterns for 2025-W01
C28_BatchOfNewYearWeek ==
    /\ probe.op = "batch"
    /\ Len(probe.returned) = 2
    /\ probe.key = <<"2", "0", "2", "5", "-", "W", "0", "1">>

(***************************************************************************)
(* flexibleScheduling and startTime of a pattern                           *)
(***************************************************************************)
\* flexibleScheduling of a body, true when omitted
BodyFlexible(req) ==
    IF req.flexibleScheduling = Null THEN TRUE ELSE req.flexibleScheduling[1]

\* C29: every pattern has a null startTime exactly when its
\* flexibleScheduling is true (true when omitted): a creation with
\* flexibleScheduling false and no startTime, or true and a startTime, is
\* answered 400 and persists nothing, and no later update breaks the
\* equivalence.
C29_StartTimeIffInflexible ==
    [][/\ \A id \in 1..Len(patterns') :
             (patterns'[id].startTime = Null) <=> patterns'[id].flexibleScheduling
       /\ (/\ last'.op = "createPattern"
           /\ BodyFlexible(probe') <=> (probe'.startTime # Null))
             => (last'.status = 400 /\ patterns' = patterns)]_vars

\* a body with flexibleScheduling false and no startTime is refused while a
\* flexible and an inflexible pattern are persisted
C29_RefusedWithoutStartTime ==
    /\ last.op = "createPattern"
    /\ last.status = 400
    /\ probe.flexibleScheduling = Some(FALSE)
    /\ probe.startTime = Null
    /\ \E i, j \in PatternIds :
          /\ patterns[i].flexibleScheduling
          /\ ~patterns[j].flexibleScheduling

(***************************************************************************)
(* client hooks/useEvents: useUpdateEvent on the query cache               *)
(*   events  - the Event table of the server                               *)
(*   probe   - the query cache: one entry for each ['events', start, end]  *)
(*   workers - the mutations in flight                                     *)
(***************************************************************************)
\* the weeks shown: Monday 2025-10-06 to Sunday 2025-10-12, and the next
WeekRanges ==
    <<<<MkDate(BaseDay - 4, 0), MkDate(BaseDay + 2, EndOfDayMs)>>,
      <<MkDate(BaseDay + 3, 0), MkDate(BaseDay + 9, EndOfDayMs)>>>>

QueryKeys == 1..Len(WeekRanges)

\* the rows of the server: an event in each of the two weeks
ServerRows ==
    {CreateEventRow(EventRequest(Some(MkDate(BaseDay, Noon)), 0, 0, Null), 1),
     CreateEventRow(EventRequest(Some(MkDate(BaseDay + 7, Noon)), 0, 0, Null), 2)}

\* UpdateEventData: a startTime in the second week, and an empty startTime
ClientUpdates ==
    {[startTime |-> Some(Some(MkDate(BaseDay + 8, Noon))), parentEventId |-> Null],
     [startTime |-> Some(Null), parentEventId |-> Null]}

\* GET /api/events?start=..&end=..: the rows with start <= startTime <= end
EventsInRange(evs, range) ==
    {e \in evs : DateLE(range[1], e.startTime[1]) /\ DateLE(e.startTime[1], range[2])}

\* a query of the cache: data is Null before the first response
NoQuery == [data |-> Null, isInvalidated |-> FALSE, fetching |-> FALSE]

IdleMutation ==
    [phase |-> "idle", id |-> 0, data |-> Null, context |-> <<>>,
     before |-> <<>>, alone |-> TRUE]

\* queryClient.cancelQueries({queryKey: ['events']})
CancelledCache(cache) == [k \in QueryKeys |-> [cache[k] EXCEPT !.fetching = FALSE]]

\* queryClient.getQueriesData({queryKey: ['events']})
getQueriesData(cache) == [k \in QueryKeys |-> cache[k].data]

\* lines 34-44: the event id takes the startTime of data when it has one
OptimisticList(old, id, data) ==
    {IF event.id = id
     THEN [event EXCEPT !.startTime = IF data.startTime # Null
                                         /\ data.startTime[1] # Null
                                      THEN data.startTime[1] ELSE @]
     ELSE event : event \in old}

\* queryClient.setQueriesData: queries without data are left alone
OptimisticCache(cache, id, data) ==
    [k \in QueryKeys |->
        IF cache[k].data = Null THEN cache[k]
        ELSE [cache[k] EXCEPT !.data = Some(OptimisticList(@[1], id, data)),
                              !.isInvalidated = FALSE]]

\* a rollback that leaves the cache as it is
RestoredCacheOfNothing(cache, context) == cache

\* onError: setQueryData(queryKey, data) for every entry of the snapshot;
\* setQueryData ignores an entry whose data is undefined
RestoredCache(cache, context) ==
    [k \in QueryKeys |->
        IF context[k] = Null THEN cache[k]
        ELSE [cache[k] EXCEPT !.data = context[k], !.isInvalidated = FALSE]]

\* onSettled: queryClient.invalidateQueries({queryKey: ['events']})
InvalidatedCache(cache) ==
    [k \in QueryKeys |-> [cache[k] EXCEPT !.isInvalidated = TRUE]]

InFlight(m) == workers[m].phase # "idle"

ClientStep(op, m) ==
    /\ last' = [NoResponse EXCEPT !.op = op, !.pid = m]
    /\ UNCHANGED <<patterns, nextEventId, run, everExisted>>

\* useEvents observes a query: it fetches when there is no data or the query
\* is invalidated
Read(k) ==
    /\ ~probe[k].fetching
    /\ probe[k].data = Null \/ probe[k].isInvalidated
    /\ probe' = [probe EXCEPT ![k].fetching = TRUE]
    /\ ClientStep("read", k)
    /\ UNCHANGED <<events, workers>>

\* the response of getEvents arrives
FetchComplete(k) ==
    /\ probe[k].fetching
    /\ probe' = [probe EXCEPT ![k] = [data |-> Some(EventsInRange(events, WeekRanges[k])),
                                      isInvalidated |-> FALSE,
                                      fetching |-> FALSE]]
    /\ ClientStep("fetched", k)
    /\ UNCHANGED <<events, workers>>

MutationStarted(m, id, data, cancelled) ==
    /\ probe' = OptimisticCache(cancelled, id, data)
    /\ workers' = [w \in Workers |->
                     IF w = m
                     THEN [phase |-> "pending", id |-> id, data |-> data,
                           context |-> getQueriesData(cancelled),
                           before |-> getQueriesData(probe),
                           alone |-> \A o \in Workers \ {m} : ~InFlight(o)]
                     ELSE IF InFlight(w) THEN [workers[w] EXCEPT !.alone = FALSE]
                     ELSE workers[w]]
    /\ ClientStep("mutate", m)
    /\ UNCHANGED events

\* mutate({id, data}): onMutate
Mutate(m, id, data) ==
    /\ ~InFlight(m)
    /\ \E k \in QueryKeys : probe[k].data # Null
    /\ MutationStarted(m, id, data, CancelledCache(probe))

ServerAnswered(m, resp) ==
    /\ StoreEvents(IF resp.status = 200
                   THEN (events \ {EventById(workers[m].id)}) \cup {resp.row}
                   ELSE events)
    /\ workers' = [workers EXCEPT ![m].phase = IF resp.status = 200
                                               THEN "success" ELSE "error"]
    /\ last' = [NoResponse EXCEPT !.op = "answered", !.pid = m,
                                  !.status = resp.status]
    /\ UNCHANGED <<patterns, nextEventId, run, probe>>

\* mutationFn: PATCH /api/events/:id is answered
ServerAnswer(m) ==
    /\ workers[m].phase = "pending"
    /\ ServerAnswered(m, IF workers[m].id \in EventIds
                         THEN UpdateEventResponse(events, EventById(workers[m].id),
                                                  workers[m].data)
                         ELSE [status |-> 404, row |-> Null])

\* mutationFn: fetch rejects, the request never reached the server
NetworkError(m) ==
    /\ workers[m].phase = "pending"
    /\ workers' = [workers EXCEPT ![m].phase = "error"]
    /\ ClientStep("failed", m)
    /\ UNCHANGED <<events, probe>>

OnError(m) ==
    /\ workers[m].phase = "error"
    /\ probe' = RestoredCache(probe, workers[m].context)
    /\ workers' = [workers EXCEPT ![m].phase = "settling"]
    /\ ClientStep("onError", m)
    /\ UNCHANGED events

OnSettled(m) ==
    /\ workers[m].phase \in {"success", "settling"}
    /\ probe' = InvalidatedCache(probe)
    /\ workers' = [workers EXCEPT ![m] = IdleMutation]
    /\ ClientStep("onSettled", m)
    /\ UNCHANGED events

ClientInit ==
    /\ patterns = <<>>
    /\ events = ServerRows
    /\ nextEventId = MaxEvents + 1
    /\ last = NoResponse
    /\ run = NoRun
    /\ everExisted = {}
    /\ workers = [w \in Workers |-> IdleMutation]
    /\ probe = [k \in QueryKeys |-> NoQuery]

ClientNext ==
    \/ \E k \in QueryKeys : Read(k)
    \/ \E k \in QueryKeys : FetchComplete(k)
    \/ \E m \in Workers, id \in 1..MaxEvents, data \in ClientUpdates : Mutate(m, id, data)
    \/ \E m \in Workers : ServerAnswer(m)
    \/ \E m \in Workers : NetworkError(m)
    \/ \E m \in Workers : OnError(m)
    \/ \E m \in Workers : OnSettled(m)

SpecClient == ClientInit /\ [][ClientNext]_vars

\* every cached list of the snapshot is in the cache again
RestoredTo(snapshot) ==
    \A k \in QueryKeys : snapshot[k] # Null => probe'[k].data = snapshot[k]

====
